---- MODULE Spec2Model ----
(***************************************************************************)
(* Calendar groups of mcp-ical: the JSON file storage (atomic write,       *)
(* backups), the validated entity model and the caching group manager.     *)
(*                                                                         *)
(* Strings are sequences of one-character strings, so that trimming and    *)
(* the forbidden-character test are computed as the code computes them.    *)
(***************************************************************************)
EXTENDS Integers, Sequences, FiniteSets, TLC

VARIABLES
    cache,      \* CalendarGroupManager._schema_cache
    primary,    \* the file at GroupStorage.storage_path
    backups,    \* the files of GroupStorage.backup_dir
    tmp,        \* the NamedTemporaryFile of a save in progress
    now,        \* datetime.now(), in seconds
    sv,         \* position of a step-by-step save_groups call
    last,       \* the Manager call that has just returned
    warmed,     \* a schema load has succeeded since the last refresh
    reloaded,   \* Storage.load was called again after such a load
    extDirty,   \* another writer replaced the file behind a warm cache
    faults,     \* number of save_groups calls that have failed
    writes      \* number of times another writer replaced the file

vars ==
    <<cache, primary, backups, tmp, now, sv, last, warmed, reloaded, extDirty,
      faults, writes>>

----------------------------------------------------------------------------
(* Bounds of the model *)

\* at most this many save_groups calls fail in one behaviour
MaxFaults == 1

\* another writer replaces the file at most this many times
MaxExternal == 1

\* number of write calls json.dump needs for one document
NChunks == 2

\* the calls of the storage specification, one a second
MaxSaves == 4

\* the calls of the backup specification, one a second: enough to fill
\* the backup directory and one more
MaxTime == 12

(* Program constants *)

MaxBackups == 10
NameMaxLength == 100
DescriptionMaxLength == 500

----------------------------------------------------------------------------
(* Strings *)

sEmpty == << >>
sA     == <<"a">>
sB     == <<"b">>
sPadA  == <<" ", "a">>
sBlank == <<" ">>
sSlash == <<"a", "/">>
sX     == <<"x">>
sY     == <<"y">>
sD     == <<"d">>
sPadD  == <<" ", "d", " ">>

Min(a, b) == IF a <= b THEN a ELSE b

\* the elements of a sequence
Range(s) == {s[i] : i \in 1..Len(s)}

\* str.strip(): leading and trailing whitespace removed
RECURSIVE LStrip(_)
LStrip(s) == IF s # << >> /\ Head(s) = " " THEN LStrip(Tail(s)) ELSE s

RECURSIVE RStrip(_)
RStrip(s) ==
    IF s # << >> /\ s[Len(s)] = " " THEN RStrip(SubSeq(s, 1, Len(s) - 1)) ELSE s

Strip(s) == RStrip(LStrip(s))

InvalidChars == {"/", "\\", ":", "*", "?", "\"", "<", ">", "|"}

----------------------------------------------------------------------------
(* CalendarGroup: field validators *)

\* name: Field(min_length=1, max_length=100), then validate_name
NameOk(v) ==
    /\ Len(v) >= 1
    /\ Len(v) <= NameMaxLength
    /\ Strip(v) # << >>
    /\ Range(Strip(v)) \cap InvalidChars = {}

ValidateName(v) == Strip(v)

\* duplicates removed, first occurrences kept in order
RECURSIVE UniqueIds(_)
UniqueIds(v) ==
    IF v = << >> THEN << >>
    ELSE LET init == UniqueIds(SubSeq(v, 1, Len(v) - 1))
             x == v[Len(v)]
         IN IF x \in Range(init) THEN init ELSE Append(init, x)

CalendarIdsOk(v) == \A i \in 1..Len(v) : Strip(v[i]) # << >>

\* faulty variant: of a repeated id the last occurrence is kept
RECURSIVE UniqueIdsKeepLast(_)
UniqueIdsKeepLast(v) ==
    IF v = << >> THEN << >>
    ELSE IF Head(v) \in Range(Tail(v)) THEN UniqueIdsKeepLast(Tail(v))
    ELSE <<Head(v)>> \o UniqueIdsKeepLast(Tail(v))

ValidateCalendarIds(v) == UniqueIds(v)

\* a description is [none |-> TRUE] for None, else its text
NoneDesc == [none |-> TRUE, val |-> << >>]
Desc(s) == [none |-> FALSE, val |-> s]

DescriptionOk(d) == d.none \/ Len(d.val) <= DescriptionMaxLength

ValidateDescription(d) == IF d.none THEN << >> ELSE Strip(d.val)

\* CalendarGroup(name=..., calendar_ids=..., description=...) at time t
GroupOk(name, ids, desc) ==
    NameOk(name) /\ CalendarIdsOk(ids) /\ DescriptionOk(desc)

NewGroup(name, ids, desc, created, modified) ==
    [name         |-> ValidateName(name),
     calendar_ids |-> ValidateCalendarIds(ids),
     description  |-> ValidateDescription(desc),
     created      |-> created,
     modified     |-> modified]

NoGroup ==
    [name |-> << >>, calendar_ids |-> << >>, description |-> << >>,
     created |-> 0, modified |-> 0]

----------------------------------------------------------------------------
(* CalendarGroup: entity methods and serialization *)

\* datetime.isoformat() and datetime.fromisoformat()
Isoformat(t) == [iso |-> t]
FromIsoformat(s) == s.iso

\* faulty variant: the id is put in front
GroupAddCalendarInFront(g, id, t) ==
    IF id \notin Range(g.calendar_ids)
    THEN [g EXCEPT !.calendar_ids = <<id>> \o @, !.modified = t]
    ELSE g

GroupAddCalendar(g, id, t) ==
    IF id \notin Range(g.calendar_ids)
    THEN [g EXCEPT !.calendar_ids = Append(@, id), !.modified = t]
    ELSE g

\* list.remove(x): the first occurrence is removed
RemoveFirst(s, x) ==
    IF x \notin Range(s) THEN s
    ELSE LET i == CHOOSE k \in 1..Len(s) :
                      s[k] = x /\ \A j \in 1..(k - 1) : s[j] # x
         IN SubSeq(s, 1, i - 1) \o SubSeq(s, i + 1, Len(s))

GroupRemoveCalendar(g, id, t) ==
    IF id \in Range(g.calendar_ids)
    THEN [g EXCEPT !.calendar_ids = RemoveFirst(@, id), !.modified = t]
    ELSE g

GroupUpdateDescription(g, text, t) ==
    [g EXCEPT !.description = Strip(text), !.modified = t]

GroupToDict(g) ==
    [name         |-> g.name,
     calendar_ids |-> g.calendar_ids,
     description  |-> g.description,
     created      |-> Isoformat(g.created),
     modified     |-> Isoformat(g.modified)]

GroupFromDictOk(d) == GroupOk(d.name, d.calendar_ids, Desc(d.description))

\* faulty variant: both timestamps are read from "modified"
GroupFromDictStale(d) ==
    NewGroup(d.name, d.calendar_ids, Desc(d.description),
             FromIsoformat(d.modified), FromIsoformat(d.modified))

GroupFromDict(d) ==
    NewGroup(d.name, d.calendar_ids, Desc(d.description),
             FromIsoformat(d.created), FromIsoformat(d.modified))

----------------------------------------------------------------------------
(* A Python dict with string keys: a sequence of [key, val] entries in     *)
(* insertion order.                                                        *)

Keys(d) == {d[i].key : i \in 1..Len(d)}

Lookup(d, k) == d[CHOOSE i \in 1..Len(d) : d[i].key = k].val

\* d[k] = v
Put(d, k, v) ==
    IF k \in Keys(d)
    THEN [i \in 1..Len(d) |-> IF d[i].key = k THEN [key |-> k, val |-> v] ELSE d[i]]
    ELSE Append(d, [key |-> k, val |-> v])

\* del d[k]
Del(d, k) == SelectSeq(d, LAMBDA e : e.key # k)

----------------------------------------------------------------------------
(* GroupsSchema *)

Version10 == <<"1", ".", "0">>

Digits == {"0", "1", "2", "3", "4", "5", "6", "7", "8", "9"}

\* v.split('.')
RECURSIVE SplitDots(_)
SplitDots(v) ==
    IF \A i \in 1..Len(v) : v[i] # "."
    THEN <<v>>
    ELSE LET i == CHOOSE k \in 1..Len(v) :
                      v[k] = "." /\ \A j \in 1..(k - 1) : v[j] # "."
         IN <<SubSeq(v, 1, i - 1)>> \o SplitDots(SubSeq(v, i + 1, Len(v)))

ValidateVersionOk(v) ==
    /\ v # << >>
    /\ Len(SplitDots(v)) >= 2
    /\ \A i \in 1..Len(SplitDots(v)) :
           SplitDots(v)[i] # << >> /\ Range(SplitDots(v)[i]) \subseteq Digits

EmptySchema == [version |-> Version10, groups |-> << >>]

\* GroupsSchema(**data): every entry is rebuilt by CalendarGroup.from_dict
\* and its key must equal the rebuilt group's name
ValidateGroupsOk(gs) ==
    \A i \in 1..Len(gs) :
        /\ GroupFromDictOk(gs[i].val)
        /\ gs[i].key = GroupFromDict(gs[i].val).name

SchemaFromDataOk(data) ==
    ValidateVersionOk(data.version) /\ ValidateGroupsOk(data.groups)

SchemaFromData(data) ==
    [version |-> data.version,
     groups  |-> [i \in 1..Len(data.groups) |->
                     [key |-> data.groups[i].key,
                      val |-> GroupFromDict(data.groups[i].val)]]]

SchemaAddGroup(schema, g) ==
    IF g.name \in Keys(schema.groups) THEN schema
    ELSE [schema EXCEPT !.groups = Put(@, g.name, g)]

\* faulty variant: remove_group deletes the oldest entry, whatever its key
SchemaRemoveOldest(schema, name) ==
    IF name \in Keys(schema.groups) THEN [schema EXCEPT !.groups = Tail(@)] ELSE schema

SchemaRemoveGroup(schema, name) == [schema EXCEPT !.groups = Del(@, name)]

\* to_dict(): a document with a version key and a groups key
SchemaToDict(schema) ==
    [shape   |-> "full",
     version |-> schema.version,
     groups  |-> [i \in 1..Len(schema.groups) |->
                     [key |-> schema.groups[i].key,
                      val |-> GroupToDict(schema.groups[i].val)]]]

----------------------------------------------------------------------------
(* GroupStorage: files *)

\* The parsed content of a JSON file.  shape is "full" when the document is
\* an object with a version key and a groups key, "noversion" when it has
\* only a groups key, "versiononly" when it has only a version key, "bare"
\* when it has neither (the object is the groups map itself), "array" when
\* it is a JSON array, "number" when it is a number, true, false or null.
\* "wrappedarray" is the object {version, groups} whose groups is an array.
Data(shape, version, groups) ==
    [shape |-> shape, version |-> version, groups |-> groups]

EmptyData == Data("full", Version10, << >>)

\* A file: the document json.dump was asked to write, how many of its
\* NChunks chunks are in the file, and its modification time.
File(data, chunks, mtime) ==
    [exists |-> TRUE, data |-> data, chunks |-> chunks, mtime |-> mtime,
     readable |-> TRUE]

NoFile ==
    [exists |-> FALSE, data |-> EmptyData, chunks |-> 0, mtime |-> 0,
     readable |-> TRUE]

\* A file that open() refuses to read (IOError)
Unreadable(f) == [f EXCEPT !.readable = FALSE]

\* json.load succeeds on a completely written document only
Parses(f) == f.exists /\ f.readable /\ f.chunks = NChunks

\* the three files' state as one value
FS(p, b, t) == [primary |-> p, backups |-> b, tmp |-> t]

\* "version" in data, "groups" in data
HasVersionKey(data) == data.shape \in {"full", "versiononly", "wrappedarray"}
HasGroupsKey(data) == data.shape \in {"full", "noversion", "wrappedarray"}

\* `"version" not in data` raises TypeError when data is not a container
MigrateRaises(data) == data.shape = "number"

\* faulty variant: the version is stamped on every document
MigrateStampsAlways(data) ==
    IF HasGroupsKey(data) THEN Data("full", Version10, data.groups)
    ELSE Data(IF data.shape = "array" THEN "wrappedarray" ELSE "full",
              Version10, data.groups)

\* migrate_schema, for a document it does not raise on
MigrateSchema(data) ==
    IF HasVersionKey(data) THEN data
    ELSE IF HasGroupsKey(data) THEN Data("full", Version10, data.groups)
    ELSE Data(IF data.shape = "array" THEN "wrappedarray" ELSE "full",
              Version10, data.groups)

\* faulty variant: the list is sorted oldest first, so the newest files go
CleanupNewestBackups(bs) ==
    IF Cardinality(bs) <= MaxBackups THEN {bs}
    ELSE {keep \in SUBSET bs :
             /\ Cardinality(keep) = MaxBackups
             /\ \A k \in keep : \A r \in bs \ keep : k.file.mtime <= r.file.mtime}

\* _cleanup_old_backups: the sets of backups that may be left.  Files are
\* ordered by modification time, newest first; files of equal time stand in
\* the order the directory listing gave them.
CleanupOldBackups(bs) ==
    IF Cardinality(bs) <= MaxBackups THEN {bs}
    ELSE {keep \in SUBSET bs :
             /\ Cardinality(keep) = MaxBackups
             /\ \A k \in keep : \A r \in bs \ keep : k.file.mtime >= r.file.mtime}

\* shutil.copy2 to backup_dir/calendar_groups_<t>.json: content and
\* modification time are those of the source; a file of that name is replaced
CopyToBackup(bs, f, t) ==
    {b \in bs : b.name # t} \cup {[name |-> t, file |-> f]}

\* backup_file() at time t, the primary file existing
BackupFile(fs, t) ==
    {FS(fs.primary, keep, fs.tmp) :
        keep \in CleanupOldBackups(CopyToBackup(fs.backups, fs.primary, t))}

\* backup_file() whose copy breaks off after c chunks
BackupFileBroken(fs, t, c) ==
    FS(fs.primary,
       CopyToBackup(fs.backups,
                    File(fs.primary.data, Min(c, fs.primary.chunks), t), t),
       fs.tmp)

\* How a call of load_groups or _restore_from_backup ends: the error it
\* raises ("ok": none), whether it has a document, and the document
Loaded(err, found, data) == [err |-> err, found |-> found, data |-> data]

\* _restore_from_backup:
\* the backups are tried by modification time, newest first (files of equal
\* time in the order of the directory listing); one that cannot be opened
\* or parsed is skipped; the first that parses is migrated and returned
RestoreCall(bs) ==
    LET good == {b \in bs : Parses(b.file)}
        best == {b \in good : \A o \in good : o.file.mtime <= b.file.mtime}
    IN  IF good = {} THEN {Loaded("ok", FALSE, EmptyData)}
        ELSE {IF MigrateRaises(b.file.data) THEN Loaded("TypeError", FALSE, EmptyData)
              ELSE Loaded("ok", TRUE, MigrateSchema(b.file.data)) : b \in best}

\* load_groups
LoadGroupsCall(fs) ==
    IF ~fs.primary.exists THEN {Loaded("ok", TRUE, EmptyData)}
    ELSE IF Parses(fs.primary)
    THEN {IF MigrateRaises(fs.primary.data) THEN Loaded("TypeError", FALSE, EmptyData)
          ELSE Loaded("ok", TRUE, MigrateSchema(fs.primary.data))}
    ELSE {IF r.err # "ok" THEN r
          ELSE IF r.found THEN r
          ELSE Loaded("ok", TRUE, EmptyData) : r \in RestoreCall(fs.backups)}

\* _restore_from_backup: the documents it may return (none: the empty set)
RestoreFromBackup(bs) ==
    {r.data : r \in {x \in RestoreCall(bs) : x.err = "ok" /\ x.found}}

\* load_groups: the documents it may return
LoadGroups(fs) ==
    {r.data : r \in {x \in LoadGroupsCall(fs) : x.err = "ok"}}

----------------------------------------------------------------------------
(* GroupStorage.save_groups, step by step *)

\* faulty variant: the destination itself is opened for writing
MakeTempInPlace(fs, data, t) == FS(File(data, 0, t), fs.backups, File(data, 0, t))

\* NamedTemporaryFile(dir=storage_path.parent, delete=False)
MakeTemp(fs, data, t) == FS(fs.primary, fs.backups, File(data, 0, t))

\* one write of json.dump
WriteChunk(fs) == FS(fs.primary, fs.backups, [fs.tmp EXCEPT !.chunks = @ + 1])

\* faulty variant: the temporary file is removed instead of moved
MoveTempLost(fs) == FS(fs.primary, fs.backups, NoFile)

\* shutil.move(temp_file, storage_path): a rename within one directory
MoveTemp(fs) == FS(fs.tmp, fs.backups, NoFile)

\* faulty variant: the except branch forgets the temporary file
UnlinkTempForgotten(fs) == fs

\* the except branch: os.unlink(temp_file)
UnlinkTemp(fs) == FS(fs.primary, fs.backups, NoFile)

RECURSIVE WriteChunks(_, _)
WriteChunks(fs, n) == IF n = 0 THEN fs ELSE WriteChunks(WriteChunk(fs), n - 1)

\* save_groups(data) at time t as one call: every way it may end.
\* err is "ok", "IOError" (the write phase failed) or "OSError" (the
\* backup copy failed, outside the try block).
SaveGroups(fs, data, t) ==
    LET backed == IF fs.primary.exists THEN BackupFile(fs, t) ELSE {fs}
        broken == IF fs.primary.exists
                  THEN {BackupFileBroken(fs, t, c) : c \in 0..(NChunks - 1)}
                  ELSE {}
    IN  {[fs |-> MoveTemp(WriteChunks(MakeTemp(b, data, t), NChunks)), err |-> "ok"] :
            b \in backed}
        \cup {[fs |-> UnlinkTemp(WriteChunks(MakeTemp(b, data, t), n)), err |-> "IOError"] :
            b \in backed, n \in 0..NChunks}
        \cup {[fs |-> b, err |-> "IOError"] : b \in backed}
        \cup {[fs |-> b, err |-> "OSError"] : b \in broken}

----------------------------------------------------------------------------
(* CalendarGroupManager *)

\* _schema_cache: None, or the cached GroupsSchema
NoCache == [loaded |-> FALSE, schema |-> EmptySchema]
Cached(schema) == [loaded |-> TRUE, schema |-> schema]

\* updates of update_group: the keys given and their values
Updates(hasIds, ids, hasDesc, desc) ==
    [hasIds |-> hasIds, ids |-> ids, hasDesc |-> hasDesc, desc |-> desc]

\* How a Manager call ends: the cache and the files it leaves, the error
\* raised ("ok": none), the boolean or the group returned, whether
\* save_groups replaced the file and whether load_groups was called.
Out(c, fs, err, ret, found, group, saved, called) ==
    [cache |-> c, fs |-> fs, err |-> err, ret |-> ret, found |-> found,
     group |-> group, saved |-> saved, called |-> called]

\* faulty variant: _load_schema without the cache test
LoadSchemaAlways(c, fs) ==
    {IF SchemaFromDataOk(data)
     THEN [ok |-> TRUE, cache |-> Cached(SchemaFromData(data)), called |-> TRUE]
     ELSE [ok |-> FALSE, cache |-> NoCache, called |-> TRUE] :
        data \in LoadGroups(fs)}

\* faulty variant: a document that fails validation leaves an empty schema
\* in the cache
LoadSchemaLenient(c, fs) ==
    IF c.loaded THEN {[ok |-> TRUE, cache |-> c, called |-> FALSE]}
    ELSE {IF SchemaFromDataOk(data)
          THEN [ok |-> TRUE, cache |-> Cached(SchemaFromData(data)), called |-> TRUE]
          ELSE [ok |-> TRUE, cache |-> Cached(EmptySchema), called |-> TRUE] :
            data \in LoadGroups(fs)}

\* _load_schema: the cache is used when there is one; otherwise the
\* document is loaded and validated, and cached when valid
LoadSchema(c, fs) ==
    IF c.loaded THEN {[ok |-> TRUE, cache |-> c, called |-> FALSE]}
    ELSE {IF SchemaFromDataOk(data)
          THEN [ok |-> TRUE, cache |-> Cached(SchemaFromData(data)), called |-> TRUE]
          ELSE [ok |-> FALSE, cache |-> NoCache, called |-> TRUE] :
            data \in LoadGroups(fs)}

\* what a call that fails in _load_schema leaves
LoadFailed(ld, fs) ==
    Out(ld.cache, fs, "ValidationError", FALSE, FALSE, NoGroup, FALSE, ld.called)

\* _save_schema(schema): schema is the cached instance, already changed in
\* place, so the cache holds it whether or not save_groups raises
SaveSchema(schema, fs, t, ret, group, called) ==
    {Out(Cached(schema), o.fs, o.err,
         IF o.err = "ok" THEN ret ELSE FALSE,
         o.err = "ok" /\ group # NoGroup,
         IF o.err = "ok" THEN group ELSE NoGroup,
         o.err = "ok", called) :
        o \in SaveGroups(fs, SchemaToDict(schema), t)}

\* the cached schema with the group under key k replaced by g
WithGroup(schema, k, g) == [schema EXCEPT !.groups = Put(@, k, g)]

\* faulty variant: create_group without the test for an existing name
CreateGroupUnchecked(c, fs, t, name, ids, desc) ==
    UNION {
        IF ~ld.ok THEN {LoadFailed(ld, fs)}
        ELSE IF ~GroupOk(name, ids, desc)
        THEN {Out(ld.cache, fs, "ValidationError", FALSE, FALSE, NoGroup, FALSE, ld.called)}
        ELSE SaveSchema(SchemaAddGroup(ld.cache.schema, NewGroup(name, ids, desc, t, t)),
                        fs, t, FALSE, NewGroup(name, ids, desc, t, t), ld.called) :
        ld \in LoadSchema(c, fs)}

CreateGroup(c, fs, t, name, ids, desc) ==
    UNION {
        IF ~ld.ok THEN {LoadFailed(ld, fs)}
        ELSE IF name \in Keys(ld.cache.schema.groups)
        THEN {Out(ld.cache, fs, "AlreadyExists", FALSE, FALSE, NoGroup, FALSE, ld.called)}
        ELSE IF ~GroupOk(name, ids, desc)
        THEN {Out(ld.cache, fs, "ValidationError", FALSE, FALSE, NoGroup, FALSE, ld.called)}
        ELSE SaveSchema(SchemaAddGroup(ld.cache.schema, NewGroup(name, ids, desc, t, t)),
                        fs, t, FALSE, NewGroup(name, ids, desc, t, t), ld.called) :
        ld \in LoadSchema(c, fs)}

\* faulty variant: update_group adds the given ids to the ones there are
UpdateGroupMerges(c, fs, t, name, updates) ==
    UNION {
        IF ~ld.ok THEN {LoadFailed(ld, fs)}
        ELSE IF name \notin Keys(ld.cache.schema.groups)
        THEN {Out(ld.cache, fs, "NotFound", FALSE, FALSE, NoGroup, FALSE, ld.called)}
        ELSE LET g0 == Lookup(ld.cache.schema.groups, name)
                 g1 == IF updates.hasIds
                       THEN [g0 EXCEPT !.calendar_ids = @ \o updates.ids] ELSE g0
                 g2 == IF updates.hasDesc
                       THEN GroupUpdateDescription(g1, updates.desc.val, t) ELSE g1
                 g3 == [g2 EXCEPT !.modified = t]
             IN  IF updates.hasDesc /\ updates.desc.none
                 THEN {Out(Cached(WithGroup(ld.cache.schema, name, g1)), fs,
                           "AttributeError", FALSE, FALSE, NoGroup, FALSE, ld.called)}
                 ELSE SaveSchema(WithGroup(ld.cache.schema, name, g3),
                                 fs, t, FALSE, g3, ld.called) :
        ld \in LoadSchema(c, fs)}

\* update_group: the keys calendar_ids and description of updates are
\* applied to the cached group one after the other, then the schema is saved
UpdateGroup(c, fs, t, name, updates) ==
    UNION {
        IF ~ld.ok THEN {LoadFailed(ld, fs)}
        ELSE IF name \notin Keys(ld.cache.schema.groups)
        THEN {Out(ld.cache, fs, "NotFound", FALSE, FALSE, NoGroup, FALSE, ld.called)}
        ELSE LET g0 == Lookup(ld.cache.schema.groups, name)
                 g1 == IF updates.hasIds
                       THEN [g0 EXCEPT !.calendar_ids = updates.ids] ELSE g0
                 g2 == IF updates.hasDesc
                       THEN GroupUpdateDescription(g1, updates.desc.val, t) ELSE g1
                 g3 == [g2 EXCEPT !.modified = t]
             IN  IF updates.hasDesc /\ updates.desc.none
                 THEN {Out(Cached(WithGroup(ld.cache.schema, name, g1)), fs,
                           "AttributeError", FALSE, FALSE, NoGroup, FALSE, ld.called)}
                 ELSE SaveSchema(WithGroup(ld.cache.schema, name, g3),
                                 fs, t, FALSE, g3, ld.called) :
        ld \in LoadSchema(c, fs)}

\* faulty variant: delete_group saves whether or not a group was removed
DeleteGroupAlwaysSaves(c, fs, t, name) ==
    UNION {
        IF ~ld.ok THEN {LoadFailed(ld, fs)}
        ELSE SaveSchema(SchemaRemoveGroup(ld.cache.schema, name), fs, t,
                        name \in Keys(ld.cache.schema.groups), NoGroup, ld.called) :
        ld \in LoadSchema(c, fs)}

\* delete_group
DeleteGroup(c, fs, t, name) ==
    UNION {
        IF ~ld.ok THEN {LoadFailed(ld, fs)}
        ELSE IF name \in Keys(ld.cache.schema.groups)
        THEN SaveSchema(SchemaRemoveGroup(ld.cache.schema, name),
                        fs, t, TRUE, NoGroup, ld.called)
        ELSE {Out(ld.cache, fs, "ok", FALSE, FALSE, NoGroup, FALSE, ld.called)} :
        ld \in LoadSchema(c, fs)}

GetGroup(c, fs, name) ==
    {IF ~ld.ok THEN LoadFailed(ld, fs)
     ELSE IF name \in Keys(ld.cache.schema.groups)
     THEN Out(ld.cache, fs, "ok", FALSE, TRUE,
              Lookup(ld.cache.schema.groups, name), FALSE, ld.called)
     ELSE Out(ld.cache, fs, "ok", FALSE, FALSE, NoGroup, FALSE, ld.called) :
        ld \in LoadSchema(c, fs)}

AddCalendarToGroup(c, fs, t, name, id) ==
    UNION {
        IF ~ld.ok THEN {LoadFailed(ld, fs)}
        ELSE IF name \notin Keys(ld.cache.schema.groups)
        THEN {Out(ld.cache, fs, "NotFound", FALSE, FALSE, NoGroup, FALSE, ld.called)}
        ELSE LET g0 == Lookup(ld.cache.schema.groups, name)
             IN  IF id \notin Range(g0.calendar_ids)
                 THEN SaveSchema(WithGroup(ld.cache.schema, name, GroupAddCalendar(g0, id, t)),
                                 fs, t, TRUE, NoGroup, ld.called)
                 ELSE {Out(ld.cache, fs, "ok", FALSE, FALSE, NoGroup, FALSE, ld.called)} :
        ld \in LoadSchema(c, fs)}

RemoveCalendarFromGroup(c, fs, t, name, id) ==
    UNION {
        IF ~ld.ok THEN {LoadFailed(ld, fs)}
        ELSE IF name \notin Keys(ld.cache.schema.groups)
        THEN {Out(ld.cache, fs, "NotFound", FALSE, FALSE, NoGroup, FALSE, ld.called)}
        ELSE LET g0 == Lookup(ld.cache.schema.groups, name)
             IN  IF id \in Range(g0.calendar_ids)
                 THEN SaveSchema(WithGroup(ld.cache.schema, name, GroupRemoveCalendar(g0, id, t)),
                                 fs, t, TRUE, NoGroup, ld.called)
                 ELSE {Out(ld.cache, fs, "ok", FALSE, FALSE, NoGroup, FALSE, ld.called)} :
        ld \in LoadSchema(c, fs)}

\* faulty variant: rename_group without the test for the new name
RenameGroupUnchecked(c, fs, t, old, new) ==
    UNION {
        IF ~ld.ok THEN {LoadFailed(ld, fs)}
        ELSE IF old \notin Keys(ld.cache.schema.groups)
        THEN {Out(ld.cache, fs, "NotFound", FALSE, FALSE, NoGroup, FALSE, ld.called)}
        ELSE LET g0 == Lookup(ld.cache.schema.groups, old)
                 g1 == [g0 EXCEPT !.name = new, !.modified = t]
                 s1 == [ld.cache.schema EXCEPT !.groups = Del(Put(@, new, g1), old)]
             IN  SaveSchema(s1, fs, t, FALSE, g1, ld.called) :
        ld \in LoadSchema(c, fs)}

\* faulty variant: rename_group moves the entry and forgets group.name
RenameGroupKeepsName(c, fs, t, old, new) ==
    UNION {
        IF ~ld.ok THEN {LoadFailed(ld, fs)}
        ELSE IF old \notin Keys(ld.cache.schema.groups)
        THEN {Out(ld.cache, fs, "NotFound", FALSE, FALSE, NoGroup, FALSE, ld.called)}
        ELSE IF new \in Keys(ld.cache.schema.groups)
        THEN {Out(ld.cache, fs, "AlreadyExists", FALSE, FALSE, NoGroup, FALSE, ld.called)}
        ELSE LET g0 == Lookup(ld.cache.schema.groups, old)
                 g1 == [g0 EXCEPT !.modified = t]
                 s1 == [ld.cache.schema EXCEPT !.groups = Del(Put(@, new, g1), old)]
             IN  SaveSchema(s1, fs, t, FALSE, g1, ld.called) :
        ld \in LoadSchema(c, fs)}

\* faulty variant: rename_group leaves the entry under the old key in place
RenameGroupKeepsOld(c, fs, t, old, new) ==
    UNION {
        IF ~ld.ok THEN {LoadFailed(ld, fs)}
        ELSE IF old \notin Keys(ld.cache.schema.groups)
        THEN {Out(ld.cache, fs, "NotFound", FALSE, FALSE, NoGroup, FALSE, ld.called)}
        ELSE IF new \in Keys(ld.cache.schema.groups)
        THEN {Out(ld.cache, fs, "AlreadyExists", FALSE, FALSE, NoGroup, FALSE, ld.called)}
        ELSE LET g0 == Lookup(ld.cache.schema.groups, old)
                 g1 == [g0 EXCEPT !.name = new, !.modified = t]
                 s1 == [ld.cache.schema EXCEPT !.groups = Put(@, new, g1)]
             IN  SaveSchema(s1, fs, t, FALSE, g1, ld.called) :
        ld \in LoadSchema(c, fs)}

\* rename_group: the entry is put under the new key and the old key deleted
\* faulty variant: the renamed group is built anew
RenameGroupRecreates(c, fs, t, old, new) ==
    UNION {
        IF ~ld.ok THEN {LoadFailed(ld, fs)}
        ELSE IF old \notin Keys(ld.cache.schema.groups)
        THEN {Out(ld.cache, fs, "NotFound", FALSE, FALSE, NoGroup, FALSE, ld.called)}
        ELSE IF new \in Keys(ld.cache.schema.groups)
        THEN {Out(ld.cache, fs, "AlreadyExists", FALSE, FALSE, NoGroup, FALSE, ld.called)}
        ELSE LET g0 == Lookup(ld.cache.schema.groups, old)
                 g1 == [g0 EXCEPT !.name = new, !.modified = t, !.created = t]
                 s1 == [ld.cache.schema EXCEPT !.groups = Del(Put(@, new, g1), old)]
             IN  SaveSchema(s1, fs, t, FALSE, g1, ld.called) :
        ld \in LoadSchema(c, fs)}

RenameGroup(c, fs, t, old, new) ==
    UNION {
        IF ~ld.ok THEN {LoadFailed(ld, fs)}
        ELSE IF old \notin Keys(ld.cache.schema.groups)
        THEN {Out(ld.cache, fs, "NotFound", FALSE, FALSE, NoGroup, FALSE, ld.called)}
        ELSE IF new \in Keys(ld.cache.schema.groups)
        THEN {Out(ld.cache, fs, "AlreadyExists", FALSE, FALSE, NoGroup, FALSE, ld.called)}
        ELSE LET g0 == Lookup(ld.cache.schema.groups, old)
                 g1 == [g0 EXCEPT !.name = new, !.modified = t]
                 s1 == [ld.cache.schema EXCEPT !.groups = Del(Put(@, new, g1), old)]
             IN  SaveSchema(s1, fs, t, FALSE, g1, ld.called) :
        ld \in LoadSchema(c, fs)}

\* faulty variant: refresh_from_storage keeps the cache
RefreshKeepsCache(c) == c

\* refresh_from_storage
RefreshFromStorage(c) == NoCache

----------------------------------------------------------------------------
(* The state machine of one Manager over one storage file *)

\* The inputs a specification tries the calls with: the names of the
\* groups addressed, the new names of rename, the calendar id lists and
\* descriptions of create, the updates of update, the ids of add and remove,
\* the ways save_groups may fail and the names another writer uses.
Inputs(names, newNames, lists, descs, updates, ids, errs, extNames) ==
    [names |-> names, newNames |-> newNames, lists |-> lists, descs |-> descs,
     updates |-> updates, ids |-> ids, errs |-> errs, extNames |-> extNames]

Call(op, name, other, ids, upd) ==
    [op |-> op, name |-> name, other |-> other, ids |-> ids, upd |-> upd]

NoUpdates == Updates(FALSE, << >>, FALSE, Desc(sEmpty))

\* a save_groups call in progress: the step it is at, the document it
\* writes, the primary file it found, the error it raises and the step
\* that failed
Saving(pc, data, pre, err, at) ==
    [pc |-> pc, data |-> data, pre |-> pre, err |-> err, at |-> at]

Idle == Saving("idle", EmptyData, NoFile, "ok", "none")

\* what the call that has just returned was and how it ended; for a read of
\* the primary file by another process, the file it saw
Returned(call, out) ==
    [call |-> call, err |-> out.err, ret |-> out.ret, found |-> out.found,
     group |-> out.group, saved |-> out.saved, called |-> out.called,
     sawExt |-> out.called /\ extDirty, seen |-> NoFile, during |-> Idle]

TheFS == FS(primary, backups, tmp)

NoOut == Out(NoCache, FS(NoFile, {}, NoFile), "ok", FALSE, FALSE, NoGroup, FALSE, FALSE)

Init ==
    /\ cache = NoCache
    /\ primary = NoFile
    /\ backups = {}
    /\ tmp = NoFile
    /\ now = 0
    /\ sv = Idle
    /\ last = Returned(Call("init", sEmpty, sEmpty, << >>, NoUpdates), NoOut)
    /\ warmed = FALSE
    /\ reloaded = FALSE
    /\ extDirty = FALSE
    /\ faults = 0
    /\ writes = 0

SaveErrors == {"IOError", "OSError"}

\* a Manager call returns (or raises) as out says
Apply(I, call, out) ==
    /\ out.err \in SaveErrors => out.err \in I.errs /\ faults < MaxFaults
    /\ faults' = IF out.err \in SaveErrors THEN faults + 1 ELSE faults
    /\ cache' = out.cache
    /\ primary' = out.fs.primary
    /\ backups' = out.fs.backups
    /\ tmp' = out.fs.tmp
    /\ last' = Returned(call, out)
    /\ warmed' = (warmed \/ (out.called /\ out.cache.loaded))
    /\ reloaded' = (reloaded \/ (out.called /\ warmed))
    /\ extDirty' = (extDirty /\ ~out.called)
    /\ UNCHANGED <<now, sv, writes>>

DoCreate(I) ==
    \E name \in I.names, ids \in I.lists, desc \in I.descs :
        \E out \in CreateGroup(cache, TheFS, now, name, ids, desc) :
            Apply(I, Call("create", name, sEmpty, ids, Updates(FALSE, << >>, TRUE, desc)), out)

DoUpdate(I) ==
    \E name \in I.names, upd \in I.updates :
        \E out \in UpdateGroup(cache, TheFS, now, name, upd) :
            Apply(I, Call("update", name, sEmpty, << >>, upd), out)

DoDelete(I) ==
    \E name \in I.names :
        \E out \in DeleteGroup(cache, TheFS, now, name) :
            Apply(I, Call("delete", name, sEmpty, << >>, NoUpdates), out)

DoGet(I) ==
    \E name \in I.names :
        \E out \in GetGroup(cache, TheFS, name) :
            Apply(I, Call("get", name, sEmpty, << >>, NoUpdates), out)

DoAddCalendar(I) ==
    \E name \in I.names, id \in I.ids :
        \E out \in AddCalendarToGroup(cache, TheFS, now, name, id) :
            Apply(I, Call("add_calendar", name, id, << >>, NoUpdates), out)

DoRemoveCalendar(I) ==
    \E name \in I.names, id \in I.ids :
        \E out \in RemoveCalendarFromGroup(cache, TheFS, now, name, id) :
            Apply(I, Call("remove_calendar", name, id, << >>, NoUpdates), out)

DoRename(I) ==
    \E old \in I.names, new \in I.newNames :
        \E out \in RenameGroup(cache, TheFS, now, old, new) :
            Apply(I, Call("rename", old, new, << >>, NoUpdates), out)

DoRefresh ==
    /\ cache' = RefreshFromStorage(cache)
    /\ warmed' = FALSE
    /\ last' = Returned(Call("refresh", sEmpty, sEmpty, << >>, NoUpdates), NoOut)
    /\ UNCHANGED <<primary, backups, tmp, now, sv, reloaded, extDirty, faults, writes>>

\* another process, with a Manager of its own and a cold cache, creates or
\* deletes a group and so replaces the file
ExternalWrite(I) ==
    \E name \in I.extNames :
        \E out \in CreateGroup(NoCache, TheFS, now, name, <<sY>>, Desc(sEmpty))
                     \cup DeleteGroup(NoCache, TheFS, now, name) :
            /\ out.saved
            /\ writes < MaxExternal
            /\ writes' = writes + 1
            /\ primary' = out.fs.primary
            /\ backups' = out.fs.backups
            /\ extDirty' = (extDirty \/ cache.loaded)
            /\ last' = Returned(Call("external", name, sEmpty, << >>, NoUpdates), NoOut)
            /\ UNCHANGED <<cache, tmp, now, sv, warmed, reloaded, faults>>

----------------------------------------------------------------------------
(* Spec: the Manager's cache against the file.  Two group names, every      *)
(* write operation, save_groups failing, another writer, refresh.          *)

CacheInputs ==
    Inputs({sA}, {sB}, {<<sX>>}, {Desc(sEmpty)},
           {Updates(TRUE, <<sX>>, FALSE, Desc(sEmpty)),
            Updates(TRUE, << >>, TRUE, NoneDesc)},
           {sX}, {"IOError", "OSError"}, {sA})

Next ==
    \/ DoCreate(CacheInputs)
    \/ DoUpdate(CacheInputs)
    \/ DoDelete(CacheInputs)
    \/ DoGet(CacheInputs)
    \/ DoAddCalendar(CacheInputs)
    \/ DoRemoveCalendar(CacheInputs)
    \/ DoRename(CacheInputs)
    \/ DoRefresh
    \/ ExternalWrite(CacheInputs)

Spec == Init /\ [][Next]_vars

----------------------------------------------------------------------------
(* SpecStorage: save_groups step by step, with a process that reads the    *)
(* primary file between the steps, failures and crashes.                   *)

GroupA == NewGroup(sA, <<sX>>, Desc(sEmpty), 0, 0)
GroupB == NewGroup(sB, <<sY>>, Desc(sEmpty), 0, 0)

\* the documents save_groups is called with
StorageDocs ==
    {SchemaToDict(EmptySchema),
     SchemaToDict(SchemaAddGroup(EmptySchema, GroupA)),
     SchemaToDict(SchemaAddGroup(SchemaAddGroup(EmptySchema, GroupA), GroupB))}

StorageStep(s) ==
    /\ sv' = s
    /\ UNCHANGED <<cache, now, last, warmed, reloaded, extDirty, faults, writes>>

\* save_groups(data) is called
SaveBegin ==
    /\ sv.pc = "idle"
    /\ \E data \in StorageDocs : StorageStep(Saving("backup", data, primary, "ok", "none"))
    /\ UNCHANGED <<primary, backups, tmp>>

\* if self.storage_path.exists(): self.backup_file()
SaveBackup ==
    /\ sv.pc = "backup"
    /\ IF primary.exists
       THEN \E fs \in BackupFile(TheFS, now) : backups' = fs.backups
       ELSE backups' = backups
    /\ StorageStep([sv EXCEPT !.pc = "create"])
    /\ UNCHANGED <<primary, tmp>>

\* the copy of backup_file breaks off: the error leaves save_groups as it is
SaveBackupFails ==
    /\ sv.pc = "backup"
    /\ primary.exists
    /\ \E c \in 0..(NChunks - 1) : backups' = BackupFileBroken(TheFS, now, c).backups
    /\ StorageStep([sv EXCEPT !.pc = "raised", !.err = "OSError", !.at = "backup"])
    /\ UNCHANGED <<primary, tmp>>

\* tempfile.NamedTemporaryFile(dir=storage_path.parent, delete=False)
SaveMakeTemp ==
    /\ sv.pc = "create"
    /\ tmp' = MakeTemp(TheFS, sv.data, now).tmp
    /\ primary' = MakeTemp(TheFS, sv.data, now).primary
    /\ StorageStep([sv EXCEPT !.pc = "dump"])
    /\ UNCHANGED backups

\* json.dump writes the next chunk
SaveWrite ==
    /\ sv.pc = "dump"
    /\ tmp' = WriteChunk(TheFS).tmp
    /\ primary' = WriteChunk(TheFS).primary
    /\ StorageStep([sv EXCEPT !.pc = IF tmp.chunks + 1 = NChunks THEN "sync" ELSE "dump"])
    /\ UNCHANGED backups

\* f.flush(), os.fsync(f.fileno()) and the close at the end of the with block
SaveSync ==
    /\ sv.pc = "sync"
    /\ StorageStep([sv EXCEPT !.pc = "move"])
    /\ UNCHANGED <<primary, backups, tmp>>

\* shutil.move(temp_file, self.storage_path)
SaveMove ==
    /\ sv.pc = "move"
    /\ primary' = MoveTemp(TheFS).primary
    /\ tmp' = MoveTemp(TheFS).tmp
    /\ StorageStep([sv EXCEPT !.pc = "returned"])
    /\ UNCHANGED backups

\* a step of the try block raises: the except branch removes the temporary
\* file, if there is one, and raises IOError
SaveFails ==
    /\ sv.pc \in {"create", "dump", "sync", "move"}
    /\ tmp' = UnlinkTemp(TheFS).tmp
    /\ primary' = UnlinkTemp(TheFS).primary
    /\ StorageStep([sv EXCEPT !.pc = "raised", !.err = "IOError", !.at = sv.pc])
    /\ UNCHANGED backups

\* the caller has the result; the next save_groups call may start
SaveEnds ==
    /\ sv.pc \in {"returned", "raised"}
    /\ StorageStep(Idle)
    /\ UNCHANGED <<primary, backups, tmp>>

\* the process dies in the middle of save_groups; the files stay as they are
Crash ==
    /\ sv.pc \in {"backup", "create", "dump", "sync", "move"}
    /\ StorageStep([sv EXCEPT !.pc = "crashed", !.at = sv.pc])
    /\ UNCHANGED <<primary, backups, tmp>>

\* another process opens the primary file and reads all of it
ReadPrimary ==
    /\ last' = [Returned(Call("read", sEmpty, sEmpty, << >>, NoUpdates), NoOut)
                   EXCEPT !.seen = primary, !.during = sv]
    /\ UNCHANGED <<cache, primary, backups, tmp, now, sv, warmed, reloaded, extDirty,
                   faults, writes>>

NextStorage ==
    \/ SaveBegin
    \/ SaveBackup
    \/ SaveBackupFails
    \/ SaveMakeTemp
    \/ SaveWrite
    \/ SaveSync
    \/ SaveMove
    \/ SaveFails
    \/ SaveEnds
    \/ Crash
    \/ ReadPrimary

SpecStorage == Init /\ [][NextStorage]_vars

----------------------------------------------------------------------------
(* Properties of the storage (checked under SpecStorage) *)

\* C1: a process that reads the primary file while save_groups replaces an
\* existing one - between any two steps, after a failure, after a crash -
\* reads either the complete content the file had before the save or the
\* complete new content, never a partial or empty file.
C1_ReaderSeesOldOrNew ==
    (last.call.op = "read" /\ last.during.pc # "idle" /\ last.during.pre.exists)
        => /\ Parses(last.seen)
           /\ \/ last.seen = last.during.pre
              \/ last.seen.data = last.during.data

\* a reader has read the old content while the temporary file was being
\* written with different content, and one has read the file after a crash
C1_Witness ==
    /\ last.call.op = "read"
    /\ last.during.pc = "crashed"
    /\ last.during.at = "dump"
    /\ last.during.pre.exists
    /\ last.during.data # last.during.pre.data
    /\ last.seen = last.during.pre
    /\ tmp.exists /\ tmp.chunks = 1

\* C2: when a step of the write phase of save_groups fails (creating the
\* temporary file, json.dump, flush/fsync, the move), save_groups raises
\* IOError, the primary file is exactly as it was before the call and the
\* temporary file of the call is gone.  The same holds of every way the
\* call as a whole may end.
C2_FailedSaveLeavesPrimary ==
    /\ (sv.pc = "raised" /\ sv.at \in {"create", "dump", "sync", "move"})
           => sv.err = "IOError" /\ primary = sv.pre /\ ~tmp.exists
    /\ sv.pc = "idle" =>
           \A data \in StorageDocs : \A o \in SaveGroups(TheFS, data, now) :
               o.err = "IOError" => o.fs.primary = primary /\ ~o.fs.tmp.exists

\* the move of a completely written temporary file has failed, over an
\* existing primary file of different content
C2_Witness ==
    /\ sv.pc = "raised"
    /\ sv.at = "move"
    /\ sv.pre.exists
    /\ sv.data # sv.pre.data

----------------------------------------------------------------------------
(* Properties of the Manager's cache (checked under Spec) *)

WriteOps == {"create", "update", "delete", "add_calendar", "remove_calendar", "rename"}

\* the last call was a write operation that completed without error:
\* create, update or rename that returned, delete, add_calendar or
\* remove_calendar that returned true
WriteCompleted ==
    /\ last.call.op \in WriteOps
    /\ last.err = "ok"
    /\ last.call.op \in {"delete", "add_calendar", "remove_calendar"} => last.ret

\* C3: after every Manager write operation that completes without error the
\* primary file holds the serialization of the cached schema, and a read
\* that follows returns the cached state without calling Storage.load.
C3_FileEqualsCacheAfterWrite ==
    WriteCompleted =>
        /\ cache.loaded
        /\ Parses(primary)
        /\ primary.data = SchemaToDict(cache.schema)
        /\ \A name \in CacheInputs.names \cup CacheInputs.newNames :
               \A out \in GetGroup(cache, TheFS, name) :
                   /\ ~out.called
                   /\ out.cache = cache
                   /\ out.found <=> name \in Keys(primary.data.groups)
                   /\ out.found =>
                          GroupToDict(out.group) = Lookup(primary.data.groups, name)

\* a rename has completed after an earlier save had failed and another
\* writer had replaced the file
C3_Witness ==
    /\ WriteCompleted
    /\ last.call.op = "rename"
    /\ faults = 1
    /\ writes = 1

\* C4: once a schema load has succeeded, no Manager operation, read or
\* write, calls Storage.load again before refresh is called; the cache
\* stays in place.
C4_NoReloadWhileWarm == ~reloaded /\ (warmed => cache.loaded)

\* a write and then a read have run on the warm cache without a load
C4_Witness ==
    /\ warmed
    /\ last.call.op = "get"
    /\ ~last.called
    /\ last.found
    /\ faults = 1

\* C5: refresh empties the cache; a cache present afterwards was loaded
\* after the refresh, and a read that loaded it returns what the file
\* holds, including what another writer wrote behind the warm cache.
C5_RefreshReloads ==
    /\ last.call.op = "refresh" => ~cache.loaded
    /\ cache.loaded => warmed
    /\ (last.call.op = "get" /\ last.called /\ last.err = "ok") =>
           /\ SchemaToDict(cache.schema) = primary.data
           /\ last.found <=> last.call.name \in Keys(primary.data.groups)
           /\ last.found =>
                  GroupToDict(last.group) = Lookup(primary.data.groups, last.call.name)

\* the cache was warm, another writer replaced the file, refresh was
\* called, and the next get returned the other writer's group
C5_Witness ==
    /\ last.call.op = "get"
    /\ last.called
    /\ last.sawExt
    /\ last.found
    /\ last.group.calendar_ids = <<sY>>

\* what get and list return in a state: the schemas _load_schema may give
View(c, fs) == {IF ld.ok THEN ld.cache.schema ELSE EmptySchema : ld \in LoadSchema(c, fs)}

\* C6: a Manager write operation that raises leaves the Manager's
\* observable state as it was: get and list return afterwards what they
\* returned before the call.
C6_FailedWriteChangesNothing ==
    [][(last'.call.op \in WriteOps /\ last'.err # "ok")
           => View(cache', TheFS') = View(cache, TheFS)]_vars

----------------------------------------------------------------------------
(* SpecCreate: create_group with names, id lists and descriptions that are  *)
(* valid, padded or invalid, over two groups.                              *)

CreateInputs ==
    Inputs({sA, sB, sPadA, sBlank, sSlash}, {},
           {<<sX, sY, sX>>, <<sBlank>>}, {Desc(sPadD), Desc(sEmpty)},
           {}, {}, {"IOError"}, {})

NextCreate ==
    \/ DoCreate(CreateInputs)
    \/ DoGet(CreateInputs)
    \/ DoDelete(CreateInputs)
    \/ DoRefresh

SpecCreate == Init /\ [][NextCreate]_vars

\* a name as the store keeps it: not empty, no surrounding whitespace, none
\* of the forbidden characters
CanonicalName(n) ==
    /\ n # << >>
    /\ Head(n) # " "
    /\ n[Len(n)] # " "
    /\ \A i \in 1..Len(n) : n[i] \notin {"/", "\\", ":", "*", "?", "\"", "<", ">", "|"}

\* r is l with duplicates removed, first occurrences kept in order
IsDedupOf(r, l) ==
    /\ Range(r) = Range(l)
    /\ \A i, j \in 1..Len(r) : i # j => r[i] # r[j]
    /\ \A i, j \in 1..Len(r) : i < j =>
           \E a \in 1..Len(l) :
               /\ l[a] = r[i]
               /\ \A b \in 1..Len(l) : l[b] = r[j] => a < b

\* r is s without its leading and trailing spaces
IsTrimOf(r, s) ==
    \E a, b \in 0..Len(s) :
        /\ a + b <= Len(s)
        /\ r = SubSeq(s, a + 1, Len(s) - b)
        /\ \A i \in 1..a : s[i] = " "
        /\ \A i \in (Len(s) - b + 1)..Len(s) : s[i] = " "
        /\ r # << >> => r[1] # " " /\ r[Len(r)] # " "

\* C7 (amended): for a valid name without surrounding whitespace, a valid
\* id list and description, create followed at once by get(name) gives a
\* group with that very name, the given ids without duplicates in
\* first-occurrence order, and the description trimmed.
C7_CreateThenGet ==
    (last.call.op = "create" /\ last.err = "ok" /\ CanonicalName(last.call.name)) =>
        \A out \in GetGroup(cache, TheFS, last.call.name) :
            /\ out.err = "ok"
            /\ out.found
            /\ out.group.name = last.call.name
            /\ IsDedupOf(out.group.calendar_ids, last.call.ids)
            /\ IsTrimOf(out.group.description, last.call.upd.desc.val)
            /\ out.group = last.group

\* C7 as stated, for every name create_group accepts (a name is accepted
\* when it is valid after trimming): create followed at once by get(name)
\* gives a group with that very name, the given ids without duplicates in
\* first-occurrence order, and the description trimmed.
C7_CreateThenGetAnyName ==
    (last.call.op = "create" /\ last.err = "ok") =>
        \A out \in GetGroup(cache, TheFS, last.call.name) :
            /\ out.found
            /\ out.group.name = last.call.name
            /\ IsDedupOf(out.group.calendar_ids, last.call.ids)
            /\ IsTrimOf(out.group.description, last.call.upd.desc.val)

\* a second group was created from a list with a repeated id and a padded
\* description
C7_Witness ==
    /\ last.call.op = "create"
    /\ last.err = "ok"
    /\ last.call.name = sB
    /\ last.call.ids = <<sX, sY, sX>>
    /\ last.call.upd.desc = Desc(sPadD)
    /\ Len(cache.schema.groups) = 2
    /\ last.group.calendar_ids = <<sX, sY>>
    /\ last.group.description = sD

\* the schema a call finds: the cached one, or the one it loads
Current(c, fs) == {ld.cache.schema : ld \in {l \in LoadSchema(c, fs) : l.ok}}

\* C8: create with a name that is already a key of the current schema
\* raises the already-exists error, saves nothing, and leaves every group
\* and the files as they were.
C8_CreateExistingFails ==
    [][\A schema \in Current(cache, TheFS) :
          (last'.call.op = "create" /\ last'.call.name \in Keys(schema.groups)) =>
              /\ last'.err = "AlreadyExists"
              /\ ~last'.saved
              /\ cache'.loaded /\ cache'.schema = schema
              /\ primary' = primary
              /\ backups' = backups
              /\ tmp' = tmp]_vars

\* create was refused for a name that exists beside another group
C8_Witness ==
    /\ last.call.op = "create"
    /\ last.err = "AlreadyExists"
    /\ last.call.name = sA
    /\ Keys(cache.schema.groups) = {sA, sB}
    /\ Parses(primary)

----------------------------------------------------------------------------
(* SpecIds: the calendar ids of one group under add, remove and update.    *)

sZ == <<"z">>

IdsInputs ==
    Inputs({sA, sB}, {}, {<<sX, sY>>}, {Desc(sEmpty)},
           {Updates(TRUE, <<sY, sY>>, FALSE, Desc(sEmpty))},
           {sX, sY, sZ}, {"IOError"}, {})

IdsNames == [IdsInputs EXCEPT !.names = {sA}]

NextIds ==
    \/ DoCreate(IdsNames)
    \/ DoUpdate(IdsNames)
    \/ DoAddCalendar(IdsInputs)
    \/ DoRemoveCalendar(IdsInputs)

SpecIds == Init /\ [][NextIds]_vars

Count(s, x) == Cardinality({i \in 1..Len(s) : s[i] = x})

\* the ids of group name in the cached schema
IdsOf(c, name) == Lookup(c.schema.groups, name).calendar_ids

\* C9: for an existing group and an id it does not hold, add_calendar -
\* unless the save fails - returns true and appends the id at the end; a
\* repeated add_calendar returns false and changes nothing; the id is then
\* in calendar_ids exactly once and the other ids are in their old order.
C9_AddCalendarOnce ==
    [][\A schema \in Current(cache, TheFS) :
          (/\ last'.call.op = "add_calendar"
           /\ last'.call.name \in Keys(schema.groups)
           /\ last'.call.other \notin Range(Lookup(schema.groups, last'.call.name).calendar_ids)
           /\ last'.err \notin SaveErrors) =>
              /\ last'.err = "ok" /\ last'.ret
              /\ IdsOf(cache', last'.call.name) =
                     Append(Lookup(schema.groups, last'.call.name).calendar_ids,
                            last'.call.other)
              /\ Count(IdsOf(cache', last'.call.name), last'.call.other) = 1
              /\ \A out \in AddCalendarToGroup(cache', TheFS', now', last'.call.name,
                                               last'.call.other) :
                     /\ out.err = "ok" /\ ~out.ret
                     /\ out.cache = cache'
                     /\ out.fs = TheFS']_vars

\* a third id was added behind two others
C9_Witness ==
    /\ last.call.op = "add_calendar"
    /\ last.ret
    /\ last.call.other = sZ
    /\ IdsOf(cache, sA) = <<sX, sY, sZ>>

\* C10: remove_calendar of an id the group does not hold returns false and
\* leaves calendar_ids as it is; of an id it holds - unless the save fails -
\* returns true and leaves the other ids in their order, the id no longer
\* among them; for a group that does not exist it raises not-found.
C10_RemoveCalendar ==
    [][\A schema \in Current(cache, TheFS) :
          last'.call.op = "remove_calendar" =>
              IF last'.call.name \notin Keys(schema.groups)
              THEN last'.err = "NotFound"
              ELSE LET ids == Lookup(schema.groups, last'.call.name).calendar_ids
                       id == last'.call.other
                   IN  IF id \notin Range(ids)
                       THEN /\ last'.err = "ok" /\ ~last'.ret
                            /\ IdsOf(cache', last'.call.name) = ids
                       ELSE last'.err \notin SaveErrors =>
                            /\ last'.err = "ok" /\ last'.ret
                            /\ IdsOf(cache', last'.call.name) =
                                   SelectSeq(ids, LAMBDA x : x # id)]_vars

----------------------------------------------------------------------------
(* Operations that change nothing (checked under Spec) *)

\* C11: add_calendar, remove_calendar and delete that return false call no
\* Storage.save: the primary file, the backups and the temporary file are
\* exactly as before the call.
C11_NoChangeNoSave ==
    [][(/\ last'.call.op \in {"add_calendar", "remove_calendar", "delete"}
        /\ last'.err = "ok"
        /\ ~last'.ret) =>
           /\ ~last'.saved
           /\ primary' = primary
           /\ backups' = backups
           /\ tmp' = tmp]_vars

\* delete of a group that is not there returned false over an existing file
\* with a backup beside it
C11_Witness ==
    /\ last.call.op = "delete"
    /\ last.err = "ok"
    /\ ~last.ret
    /\ primary.exists
    /\ backups # {}

----------------------------------------------------------------------------
(* delete_group (checked under SpecCreate) *)

\* C12: delete(name) of a group that exists - unless the save fails -
\* returns true and removes exactly the entry name: every other group is
\* as before, get(name) finds nothing afterwards, and the file holds the
\* result; of a group that does not exist it returns false and raises
\* nothing.
C12_DeleteRemovesExactlyOne ==
    [][\A schema \in Current(cache, TheFS) :
          (last'.call.op = "delete" /\ last'.err \notin SaveErrors) =>
              IF last'.call.name \in Keys(schema.groups)
              THEN /\ last'.err = "ok" /\ last'.ret
                   /\ Keys(cache'.schema.groups) = Keys(schema.groups) \ {last'.call.name}
                   /\ Len(cache'.schema.groups) = Len(schema.groups) - 1
                   /\ \A k \in Keys(cache'.schema.groups) :
                          Lookup(cache'.schema.groups, k) = Lookup(schema.groups, k)
                   /\ \A out \in GetGroup(cache', TheFS', last'.call.name) :
                          out.err = "ok" /\ ~out.found
                   /\ primary'.data = SchemaToDict(cache'.schema)
              ELSE /\ last'.err = "ok" /\ ~last'.ret
                   /\ cache'.schema = schema]_vars

\* one of two groups was deleted and the other one is left
C12_Witness ==
    /\ last.call.op = "delete"
    /\ last.ret
    /\ last.call.name = sA
    /\ Keys(cache.schema.groups) = {sB}
    /\ Keys(primary.data.groups) = {sB}

----------------------------------------------------------------------------
(* SpecRename: rename_group between two groups, to names that are free,    *)
(* taken, padded or invalid.                                               *)

RenameInputs ==
    Inputs({sA, sB}, {sA, sB, sPadA, sEmpty},
           {<<sX>>}, {Desc(sEmpty)}, {}, {}, {"IOError"}, {})

NextRename ==
    \/ DoCreate(RenameInputs)
    \/ DoRename(RenameInputs)
    \/ DoGet(RenameInputs)
    \/ DoRefresh

SpecRename == Init /\ [][NextRename]_vars

\* C13: rename(old, new) with old present and new already the name of a
\* group raises the already-exists error and saves nothing: both groups,
\* the cache and the files are as before.
C13_RenameToExistingFails ==
    [][\A schema \in Current(cache, TheFS) :
          (/\ last'.call.op = "rename"
           /\ last'.call.name \in Keys(schema.groups)
           /\ \E e \in Range(schema.groups) : e.val.name = last'.call.other) =>
              /\ last'.err = "AlreadyExists"
              /\ ~last'.saved
              /\ cache'.loaded /\ cache'.schema = schema
              /\ primary' = primary
              /\ backups' = backups
              /\ tmp' = tmp]_vars

\* rename of one group to the name of the other one was refused
C13_Witness ==
    /\ last.call.op = "rename"
    /\ last.err = "AlreadyExists"
    /\ last.call.name = sA
    /\ last.call.other = sB
    /\ Keys(cache.schema.groups) = {sA, sB}
    /\ Parses(primary)

\* C14: rename(old, new) with old present and new absent - unless the save
\* fails - removes the key old and adds the key new with a group named new
\* that has the calendar_ids, description and created of the old group;
\* every other group and the number of groups are as before, and the file
\* holds the result.
C14_RenameMovesGroup ==
    [][\A schema \in Current(cache, TheFS) :
          (/\ last'.call.op = "rename"
           /\ last'.call.name \in Keys(schema.groups)
           /\ last'.call.other \notin Keys(schema.groups)
           /\ last'.err \notin SaveErrors) =>
              LET old == last'.call.name
                  new == last'.call.other
                  g0  == Lookup(schema.groups, old)
                  g1  == Lookup(cache'.schema.groups, new)
              IN  /\ last'.err = "ok"
                  /\ Keys(cache'.schema.groups) = (Keys(schema.groups) \ {old}) \cup {new}
                  /\ Len(cache'.schema.groups) = Len(schema.groups)
                  /\ g1.name = new
                  /\ g1.calendar_ids = g0.calendar_ids
                  /\ g1.description = g0.description
                  /\ g1.created = g0.created
                  /\ last'.group = g1
                  /\ \A k \in Keys(schema.groups) \ {old} :
                         Lookup(cache'.schema.groups, k) = Lookup(schema.groups, k)
                  /\ primary'.data = SchemaToDict(cache'.schema)]_vars


\* a group was renamed to a free name while another group was present, and
\* the file holds both
C14_Witness ==
    /\ last.call.op = "rename"
    /\ last.err = "ok"
    /\ last.call.name = sA
    /\ last.call.other = sB
    /\ Len(cache.schema.groups) = 2
    /\ sA \notin Keys(cache.schema.groups)
    /\ Lookup(primary.data.groups, sB) = GroupToDict(last.group)

----------------------------------------------------------------------------
(* Invariants of the stored groups *)

\* the names of the groups of the cached schema and of the document in the
\* primary file
StoredNames ==
    (IF cache.loaded THEN {e.val.name : e \in Range(cache.schema.groups)} ELSE {})
    \cup (IF Parses(primary) THEN {e.val.name : e \in Range(primary.data.groups)} ELSE {})

\* C15: in every state reached through Manager operations every entry of
\* the groups map has key = group.name, in the cached schema and in the
\* document of the primary file.
C15_KeyIsName ==
    /\ cache.loaded => \A e \in Range(cache.schema.groups) : e.key = e.val.name
    /\ Parses(primary) => \A e \in Range(primary.data.groups) : e.key = e.val.name

\* a group renamed to a padded name stands beside another one, in the
\* cache and in the file
C15_Witness ==
    /\ last.call.op = "rename"
    /\ last.err = "ok"
    /\ last.call.other = sPadA
    /\ Keys(cache.schema.groups) = {sPadA, sA}
    /\ Keys(primary.data.groups) = {sPadA, sA}

\* C16: in every state reached through Manager operations, rename
\* included, the name of every stored group is not empty, not all
\* whitespace, has no surrounding whitespace and none of the forbidden
\* characters.
C16_StoredNamesValid == \A n \in StoredNames : CanonicalName(n)


\* C17: in every state reached through Manager operations no group's
\* calendar_ids holds the same id twice - after create with a list with
\* duplicates, after add_calendar, after update with a list with duplicates.
C17_NoDuplicateIds ==
    /\ cache.loaded =>
           \A e \in Range(cache.schema.groups) :
               \A i, j \in 1..Len(e.val.calendar_ids) :
                   i # j => e.val.calendar_ids[i] # e.val.calendar_ids[j]
    /\ Parses(primary) =>
           \A e \in Range(primary.data.groups) :
               \A i, j \in 1..Len(e.val.calendar_ids) :
                   i # j => e.val.calendar_ids[i] # e.val.calendar_ids[j]

----------------------------------------------------------------------------
(* SpecUpdate: create_group and update_group on two groups, the updates   *)
(* giving calendar_ids, description, both or neither.                      *)

UpdateInputs ==
    Inputs({sA, sB}, {}, {<<sX, sY>>}, {Desc(sEmpty)},
           {Updates(TRUE, <<sY, sY>>, FALSE, Desc(sEmpty)),
            Updates(FALSE, << >>, TRUE, Desc(sPadD)),
            Updates(TRUE, << >>, TRUE, Desc(sEmpty)),
            Updates(FALSE, << >>, FALSE, Desc(sEmpty))},
           {}, {"IOError"}, {})

NextUpdate ==
    \/ DoCreate(UpdateInputs)
    \/ DoUpdate(UpdateInputs)

SpecUpdate == Init /\ [][NextUpdate]_vars

\* C18: update(name, updates) of a group that exists - unless the save
\* fails - replaces
\* calendar_ids by exactly the list given, sets description to the text
\* given, trimmed, leaves a field that is not given as it is, leaves the name
\* and every other group as they are, and the file holds the result; of a
\* group that does not exist it raises not-found.
C18_UpdateReplacesGivenFields ==
    [][\A schema \in Current(cache, TheFS) :
          (last'.call.op = "update" /\ last'.err \notin SaveErrors) =>
              IF last'.call.name \notin Keys(schema.groups)
              THEN /\ last'.err = "NotFound"
                   /\ cache'.schema = schema
                   /\ TheFS' = TheFS
              ELSE LET upd == last'.call.upd
                       g0  == Lookup(schema.groups, last'.call.name)
                       g1  == Lookup(cache'.schema.groups, last'.call.name)
                   IN  /\ last'.err = "ok"
                       /\ last'.group = g1
                       /\ g1.calendar_ids =
                              IF upd.hasIds THEN upd.ids ELSE g0.calendar_ids
                       /\ IF upd.hasDesc
                          THEN IsTrimOf(g1.description, upd.desc.val)
                          ELSE g1.description = g0.description
                       /\ g1.name = g0.name
                       /\ g1.created = g0.created
                       /\ [i \in 1..Len(cache'.schema.groups) |-> cache'.schema.groups[i].key]
                              = [i \in 1..Len(schema.groups) |-> schema.groups[i].key]
                       /\ \A k \in Keys(schema.groups) \ {last'.call.name} :
                              Lookup(cache'.schema.groups, k) = Lookup(schema.groups, k)
                       /\ primary'.data = SchemaToDict(cache'.schema)]_vars

\* of two groups one got a new id list while its description stayed, and
\* the other group is as it was created
C18_Witness ==
    /\ last.call.op = "update"
    /\ last.err = "ok"
    /\ last.call.name = sA
    /\ last.call.upd.hasIds /\ ~last.call.upd.hasDesc
    /\ last.group.calendar_ids = <<sY, sY>>
    /\ last.group.description = sD
    /\ Keys(cache.schema.groups) = {sA, sB}
    /\ Keys(primary.data.groups) = {sA, sB}
    /\ Lookup(cache.schema.groups, sB).calendar_ids = <<sX, sY>>
    /\ Lookup(primary.data.groups, sA).calendar_ids = <<sY, sY>>

----------------------------------------------------------------------------
(* save_groups and backup_file as whole calls on a running clock, one call *)
(* a second.  SpecSaves: few calls, two documents, every way a call may    *)
(* fail.  SpecBackup: one document, calls enough to fill the backup        *)
(* directory, the write phase of save_groups failing.                      *)

BackupDocs ==
    {SchemaToDict(EmptySchema), SchemaToDict(SchemaAddGroup(EmptySchema, GroupA))}

\* what a call of the storage left: the call, the error it raised, the
\* primary file and the backups it found
StorageReturned(op, err, pre, bs) ==
    [Returned(Call(op, sEmpty, sEmpty, << >>, NoUpdates), NoOut)
        EXCEPT !.err = err, !.seen = pre,
               !.during = Saving("idle", EmptyData, pre, err, "none"),
               !.ret = (bs # {})]

\* the call ends at the end of its second
StorageCall(limit, fs, err) ==
    /\ now < limit
    /\ err # "ok" => faults < MaxFaults
    /\ faults' = IF err # "ok" THEN faults + 1 ELSE faults
    /\ primary' = fs.primary
    /\ backups' = fs.backups
    /\ tmp' = fs.tmp
    /\ now' = now + 1
    /\ UNCHANGED <<cache, sv, warmed, reloaded, extDirty, writes>>

\* save_groups(data)
StorageSave(limit, docs, errs) ==
    \E data \in docs : \E o \in SaveGroups(TheFS, data, now) :
        /\ o.err \in errs
        /\ StorageCall(limit, o.fs, o.err)
        /\ last' = StorageReturned("save", o.err, primary, backups)

\* backup_file(), the primary file existing
StorageBackup(limit) ==
    /\ primary.exists
    /\ \E fs \in BackupFile(TheFS, now) :
        /\ StorageCall(limit, fs, "ok")
        /\ last' = StorageReturned("backup", "ok", primary, backups)

\* backup_file() without a primary file: FileNotFoundError is raised before
\* anything is copied
StorageBackupNoFile ==
    /\ ~primary.exists
    /\ last' = StorageReturned("backup", "FileNotFoundError", primary, backups)
    /\ UNCHANGED <<cache, primary, backups, tmp, now, sv, warmed, reloaded, extDirty,
                   faults, writes>>

NextSaves ==
    \/ StorageSave(MaxSaves, BackupDocs, {"ok", "IOError", "OSError"})
    \/ StorageBackup(MaxSaves)
    \/ StorageBackupNoFile

SpecSaves == Init /\ [][NextSaves]_vars

NextBackup ==
    \/ StorageSave(MaxTime, {SchemaToDict(EmptySchema)}, {"ok", "IOError"})
    \/ StorageBackup(MaxTime)
    \/ StorageBackupNoFile

SpecBackup == Init /\ [][NextBackup]_vars


\* C19: a save_groups call that finds a primary file leaves - whether its
\* write phase succeeded or failed - a backup that holds what the primary
\* file held before the call, and no file in the backup directory is more
\* recently modified than that backup.
C19_SaveLeavesNewestBackup ==
    (/\ last.call.op = "save"
     /\ last.err \in {"ok", "IOError"}
     /\ last.seen.exists) =>
        \E b \in backups :
            /\ b.file = last.seen
            /\ \A o \in backups : o.file.mtime <= b.file.mtime


\* C20: after every completed save_groups or backup_file call the backup
\* directory holds at most 10 backups, and a backup the call has pruned
\* is no more recently modified than any backup that is left.
C20_AtMostTenNewestKept ==
    [][/\ Cardinality(backups') <= MaxBackups
       /\ primary.exists =>
              \A r \in (backups \cup {[name |-> now, file |-> primary]}) \ backups' :
                  \A k \in backups' : r.file.mtime <= k.file.mtime]_vars

\* the directory was full, backups of several versions of the primary file
\* in it, and the call just made has pruned the oldest one
C20_Witness ==
    /\ Cardinality(backups) = MaxBackups
    /\ last.ret
    /\ last.call.op = "save"
    /\ primary.exists
    /\ \A b \in backups : b.name > 1 /\ b.file.mtime > 0
    /\ \E a, b \in backups : a.file.mtime < b.file.mtime


\* C21: backup_file() with a primary file returns the path of a backup
\* that exists when the call returns and holds what the primary file holds,
\* whatever backups there were before, and leaves the primary file as it
\* is; without a primary file it raises the not-found error and makes no
\* backup.
C21_BackupReturnsExistingCopy ==
    [][last'.call.op = "backup" =>
          /\ primary' = primary
          /\ IF primary.exists
             THEN /\ last'.err = "ok"
                  /\ [name |-> now, file |-> primary] \in backups'
             ELSE /\ last'.err = "FileNotFoundError"
                  /\ backups' = backups]_vars


----------------------------------------------------------------------------
(* GroupStorage.load_groups and migrate_schema over the files it may find *)

Version11 == <<"1", ".", "1">>

GroupsOfA == SchemaToDict(SchemaAddGroup(EmptySchema, GroupA)).groups

\* The JSON documents a file may hold
DocFull == Data("full", Version11, GroupsOfA)
DocNoVersion == Data("noversion", sEmpty, GroupsOfA)
DocBare == Data("bare", sEmpty, GroupsOfA)
DocVersionOnly == Data("versiononly", Version11, << >>)
DocArray == Data("array", sEmpty, << >>)
DocNumber == Data("number", sEmpty, << >>)

LoadDocs == {EmptyData, DocFull, DocNoVersion, DocBare, DocVersionOnly, DocArray, DocNumber}

\* The states of the primary file: absent, holding one of the documents,
\* cut short, or unreadable
LoadPrimaries ==
    {NoFile, File(DocFull, 1, 5), Unreadable(File(DocFull, NChunks, 5))}
        \cup {File(d, NChunks, 5) : d \in LoadDocs}

\* The files the backup directory may hold
LoadBackups ==
    {[name |-> 1, file |-> File(EmptyData, NChunks, 1)],
     [name |-> 2, file |-> File(DocNoVersion, NChunks, 2)],
     [name |-> 3, file |-> File(DocFull, NChunks, 2)],
     [name |-> 4, file |-> File(DocBare, 1, 3)],
     [name |-> 5, file |-> Unreadable(File(DocBare, NChunks, 3))],
     [name |-> 6, file |-> File(DocNumber, NChunks, 4)]}

InitLoad ==
    /\ cache = NoCache
    /\ primary \in LoadPrimaries
    /\ backups \in SUBSET LoadBackups
    /\ tmp = NoFile
    /\ now = 0
    /\ sv = Idle
    /\ last = Returned(Call("init", sEmpty, sEmpty, << >>, NoUpdates), NoOut)
    /\ warmed = FALSE
    /\ reloaded = FALSE
    /\ extDirty = FALSE
    /\ faults = 0
    /\ writes = 0

\* What a call on the storage returned: the error, the file the call read
\* (for migrate_schema: the document passed in) and the document returned
StorageLoaded(op, seen, r) ==
    [StorageReturned(op, r.err, seen, backups)
        EXCEPT !.found = r.found,
               !.during = Saving("idle", r.data, seen, r.err, "none")]

\* storage.load_groups()
StorageLoad ==
    /\ \E r \in LoadGroupsCall(TheFS) : last' = StorageLoaded("load", primary, r)
    /\ UNCHANGED <<cache, primary, backups, tmp, now, sv, warmed, reloaded,
                   extDirty, faults, writes>>

\* storage.migrate_schema(d)
StorageMigrate ==
    /\ \E d \in LoadDocs :
          last' = StorageLoaded("migrate", File(d, NChunks, 0),
                     IF MigrateRaises(d) THEN Loaded("TypeError", FALSE, EmptyData)
                     ELSE Loaded("ok", TRUE, MigrateSchema(d)))
    /\ UNCHANGED <<cache, primary, backups, tmp, now, sv, warmed, reloaded,
                   extDirty, faults, writes>>

NextLoad == StorageLoad \/ StorageMigrate

SpecLoad == InitLoad /\ [][NextLoad]_vars

\* C22: load_groups never raises, whatever the state of the primary file
\* (absent, well-formed, malformed, unreadable, or well-formed JSON that is
\* not an object) and of the backups (absent, parseable or unparseable).
C22_LoadNeverRaises ==
    [][last'.call.op = "load" => last'.err = "ok"]_vars


\* The document load_groups returned
LoadedData == last.during.data

\* The backups that can be opened and parsed, and the newest of them
ParsingBackups == {b \in backups : Parses(b.file)}
NewestParsing ==
    {b \in ParsingBackups : \A o \in ParsingBackups : o.file.mtime <= b.file.mtime}

\* C23: load_groups returns the canonical empty schema when no primary file
\* exists, the migrated content of the primary when it parses, and, when
\* the primary cannot be parsed, the migrated content of the most recently
\* modified backup that parses, or the canonical empty schema when none does.
C23_LoadReturns ==
    last.call.op = "load" =>
        /\ last.err = "ok"
        /\ IF ~primary.exists THEN LoadedData = EmptyData
           ELSE IF Parses(primary) THEN LoadedData = MigrateSchema(primary.data)
           ELSE IF ParsingBackups = {} THEN LoadedData = EmptyData
           ELSE \E b \in NewestParsing : LoadedData = MigrateSchema(b.file.data)


\* The document passed to migrate_schema
Migrated == last.seen.data

\* C24: for a document d that is a JSON object (or array), migrate_schema(d)
\* returns d unchanged when d has a version key, d with version "1.0" added
\* and its groups untouched when d has a groups key but no version key, and
\* {version: "1.0", groups: d} when d has neither key.
C24_MigrateByKeys ==
    (last.call.op = "migrate" /\ Migrated.shape # "number") =>
        /\ last.err = "ok"
        /\ IF Migrated.shape \in {"full", "versiononly"}
           THEN LoadedData = Migrated
           ELSE /\ LoadedData.version = Version10
                /\ LoadedData.groups = Migrated.groups
                /\ HasVersionKey(LoadedData) /\ HasGroupsKey(LoadedData)
                /\ Migrated.shape \in {"noversion", "bare"} => LoadedData.shape = "full"

C24_Witness ==
    /\ last.call.op = "migrate"
    /\ Migrated = DocNoVersion
    /\ LoadedData = Data("full", Version10, GroupsOfA)


----------------------------------------------------------------------------
(* SpecMismatch: the Manager over a file that another program rewrites,    *)
(* with entries whose key and nested name differ.                          *)

\* the file is rewritten by hand at most this many times
MaxEdits == 2

\* {"a": {"name": "a", ...}}, {"a": {"name": "b", ...}}, {"a": {"name": " a", ...}}
EditGood == SchemaToDict(SchemaAddGroup(EmptySchema, GroupA))
EditMismatch ==
    [EditGood EXCEPT !.groups = <<[key |-> sA, val |-> GroupToDict(GroupB)]>>]
EditPadded ==
    [EditGood EXCEPT !.groups =
        <<[key |-> sA, val |-> [GroupToDict(GroupA) EXCEPT !.name = sPadA]]>>]

EditDocs == {EditGood, EditMismatch, EditPadded}

\* another program replaces the content of the primary file
ExternalEdit ==
    \E d \in EditDocs :
        /\ writes < MaxEdits
        /\ writes' = writes + 1
        /\ primary' = File(d, NChunks, now)
        /\ extDirty' = (extDirty \/ cache.loaded)
        /\ last' = Returned(Call("edit", sEmpty, sEmpty, << >>, NoUpdates), NoOut)
        /\ UNCHANGED <<cache, backups, tmp, now, sv, warmed, reloaded, faults>>

MismatchInputs ==
    Inputs({sA, sB}, {}, {<<sX>>}, {Desc(sEmpty)}, {}, {sY}, {}, {})

NextMismatch ==
    \/ DoCreate(MismatchInputs)
    \/ DoGet(MismatchInputs)
    \/ DoDelete(MismatchInputs)
    \/ DoAddCalendar(MismatchInputs)
    \/ DoRefresh
    \/ ExternalEdit

SpecMismatch == Init /\ [][NextMismatch]_vars

\* the operations that read the schema
SchemaOps ==
    {"create", "update", "delete", "get", "add_calendar", "remove_calendar", "rename"}

\* some entry of the document has a key other than its nested name
KeyDiffers(data) ==
    \E i \in 1..Len(data.groups) : data.groups[i].key # data.groups[i].val.name

\* ... other than its nested name without surrounding whitespace
KeyDiffersTrimmed(data) ==
    \E i \in 1..Len(data.groups) : data.groups[i].key # Strip(data.groups[i].val.name)

\* the operation fails in the schema load and nothing is changed
LoadFailsUnrepaired ==
    /\ last'.err = "ValidationError"
    /\ last'.called
    /\ cache' = NoCache
    /\ primary' = primary /\ backups' = backups /\ tmp' = tmp

\* C25 as stated: when the loaded document has an entry whose key differs
\* from its nested name, an operation that loads the schema fails with a
\* validation error, the file is not modified and the cache stays empty.
C25_KeyMismatchFails ==
    [][(last'.call.op \in SchemaOps /\ ~cache.loaded
            /\ Parses(primary) /\ KeyDiffers(primary.data))
          => LoadFailsUnrepaired]_vars

\* C25, amended: when the loaded document has an entry whose key differs
\* from its nested name with surrounding whitespace removed, every
\* operation that reads the schema fails with a validation error, the file
\* is not modified and the cache stays empty, so the next one reloads.
C25_TrimmedKeyMismatchFails ==
    [][(last'.call.op \in SchemaOps /\ ~cache.loaded
            /\ Parses(primary) /\ KeyDiffersTrimmed(primary.data))
          => LoadFailsUnrepaired]_vars

C25_Witness ==
    /\ last.call.op = "get"
    /\ last.err = "ValidationError"
    /\ last.called
    /\ ~cache.loaded
    /\ primary = File(EditMismatch, NChunks, 0)
    /\ writes = MaxEdits


----------------------------------------------------------------------------
(* list_groups and get_group_stats *)

sUpA == <<"A">>
sUpB == <<"B">>

\* the characters of the model in code point order
Alphabet == <<" ", "/", "A", "B", "a", "b", "d", "x", "y">>

CodePoint(ch) == CHOOSE i \in 1..Len(Alphabet) : Alphabet[i] = ch

\* str.lower()
LowerChar(ch) == IF ch = "A" THEN "a" ELSE IF ch = "B" THEN "b" ELSE ch
Lower(s) == [i \in 1..Len(s) |-> LowerChar(s[i])]

\* s < t, as Python compares strings
RECURSIVE StrLess(_, _)
StrLess(s, t) ==
    IF t = << >> THEN FALSE
    ELSE IF s = << >> THEN TRUE
    ELSE IF Head(s) = Head(t) THEN StrLess(Tail(s), Tail(t))
    ELSE CodePoint(Head(s)) < CodePoint(Head(t))

\* sorted(groups, key=lambda g: g.name.lower()): a stable sort
InsertByLowerName(sorted, g) ==
    LET n == Cardinality({i \in 1..Len(sorted) :
                            ~StrLess(Lower(g.name), Lower(sorted[i].name))})
    IN  SubSeq(sorted, 1, n) \o <<g>> \o SubSeq(sorted, n + 1, Len(sorted))

RECURSIVE SortedByLowerName(_)
SortedByLowerName(gs) ==
    IF gs = << >> THEN << >>
    ELSE InsertByLowerName(SortedByLowerName(SubSeq(gs, 1, Len(gs) - 1)), gs[Len(gs)])

\* schema.list_groups(): the groups in the order of the dict
SchemaListGroups(schema) == [i \in 1..Len(schema.groups) |-> schema.groups[i].val]

\* faulty variant: the groups are returned in the order of the dict
ListGroupsUnsorted(schema) == SchemaListGroups(schema)

\* list_groups, on the loaded schema
ListGroups(schema) == SortedByLowerName(SchemaListGroups(schema))

\* max(groups, key=...) and min(groups, key=...): the first of the list
\* with the largest (smallest) key
FirstMax(gs) ==
    gs[CHOOSE i \in 1..Len(gs) :
          /\ \A j \in 1..Len(gs) : Len(gs[j].calendar_ids) <= Len(gs[i].calendar_ids)
          /\ \A j \in 1..(i - 1) : Len(gs[j].calendar_ids) < Len(gs[i].calendar_ids)]

FirstMin(gs) ==
    gs[CHOOSE i \in 1..Len(gs) :
          /\ \A j \in 1..Len(gs) : Len(gs[j].calendar_ids) >= Len(gs[i].calendar_ids)
          /\ \A j \in 1..(i - 1) : Len(gs[j].calendar_ids) > Len(gs[i].calendar_ids)]

RECURSIVE SumLen(_)
SumLen(gs) == IF gs = << >> THEN 0 ELSE Len(Head(gs).calendar_ids) + SumLen(Tail(gs))

\* the summary: the average is kept as the pair sum, count; a group that
\* is absent (None) has the empty name
Stats(n, cals, sum, largest, smallest) ==
    [total_groups |-> n, total_calendars |-> cals, average |-> <<sum, n>>,
     largest_group |-> largest, smallest_group |-> smallest]

GroupSummary(present, name, count) ==
    [present |-> present, name |-> name, calendar_count |-> count]

NoSummary == GroupSummary(FALSE, sEmpty, 0)

ZeroStats == Stats(0, 0, 0, NoSummary, NoSummary)

StatsOf(gs) ==
    IF gs = << >> THEN ZeroStats
    ELSE Stats(Len(gs),
               Cardinality(UNION {Range(gs[i].calendar_ids) : i \in 1..Len(gs)}),
               SumLen(gs),
               GroupSummary(TRUE, FirstMax(gs).name, Len(FirstMax(gs).calendar_ids)),
               GroupSummary(TRUE, FirstMin(gs).name, Len(FirstMin(gs).calendar_ids)))

\* get_group_stats
GetGroupStats(c, fs) ==
    {IF ~ld.ok THEN LoadFailed(ld, fs)
     ELSE Out(ld.cache, fs, "ok", StatsOf(ListGroups(ld.cache.schema)),
              FALSE, NoGroup, FALSE, ld.called) :
        ld \in LoadSchema(c, fs)}

DoStats(I) ==
    \E out \in GetGroupStats(cache, TheFS) :
        Apply(I, Call("stats", sEmpty, sEmpty, << >>, NoUpdates), out)

StatsInputs ==
    Inputs({sA, sUpA, sUpB}, {}, {<<sX>>, <<sY>>, <<sX, sY>>}, {Desc(sEmpty)},
           {}, {}, {}, {})

NextStats ==
    \/ DoCreate(StatsInputs)
    \/ DoDelete(StatsInputs)
    \/ DoStats(StatsInputs)

SpecStats == Init /\ [][NextStats]_vars

\* the groups in the store, and those with the most and the fewest ids
StoredGroupSet == {cache.schema.groups[i].val : i \in 1..Len(cache.schema.groups)}

Largest == {g \in StoredGroupSet :
              \A o \in StoredGroupSet : Len(o.calendar_ids) <= Len(g.calendar_ids)}
Smallest == {g \in StoredGroupSet :
              \A o \in StoredGroupSet : Len(o.calendar_ids) >= Len(g.calendar_ids)}

\* g is a first of gs in case-insensitive name order, and summary names it
FirstIn(summary, gs) ==
    \E g \in gs :
        /\ \A o \in gs : ~StrLess(Lower(o.name), Lower(g.name))
        /\ summary = GroupSummary(TRUE, g.name, Len(g.calendar_ids))

\* C26: get_group_stats returns the zeroed summary for an empty store;
\* otherwise total_groups is the number of groups, total_calendars the number
\* of distinct calendar ids over all groups, and largest_group, smallest_group
\* are the groups with the most and the fewest calendar ids, the first in
\* case-insensitive name order when several tie.
C26_StatsSummary ==
    (last.call.op = "stats" /\ last.err = "ok") =>
        IF StoredGroupSet = {}
        THEN last.ret = ZeroStats
        ELSE /\ last.ret.total_groups = Cardinality(StoredGroupSet)
             /\ last.ret.total_calendars =
                    Cardinality(UNION {Range(g.calendar_ids) : g \in StoredGroupSet})
             /\ FirstIn(last.ret.largest_group, Largest)
             /\ FirstIn(last.ret.smallest_group, Smallest)

C26_Witness ==
    /\ last.call.op = "stats"
    /\ last.err = "ok"
    /\ last.ret.total_groups = 3
    /\ last.ret.total_calendars = 2
    /\ last.ret.largest_group = GroupSummary(TRUE, sA, 2)
    /\ last.ret.smallest_group = GroupSummary(TRUE, sUpA, 1)
    /\ cache.schema.groups[1].key = sUpB


----------------------------------------------------------------------------
(* GroupCalendarBridge over the Manager and the calendars of the host *)

\* calendar_manager.list_calendars(): the calendars of the host, each with
\* its identifier and its title; titles are distinct here
ExternalCalendars ==
    {[id |-> sX, title |-> sA], [id |-> sY, title |-> sB]}

\* an optional value
Some(v) == [found |-> TRUE, val |-> v]
None == [found |-> FALSE, val |-> sEmpty]

\* calendar_manager._find_calendar_by_name
FindCalendarByName(title) ==
    IF \E c \in ExternalCalendars : c.title = title
    THEN Some(CHOOSE c \in ExternalCalendars : c.title = title)
    ELSE None

\* _get_calendar_id_by_name
GetCalendarIdByName(title) ==
    IF FindCalendarByName(title).found
    THEN Some(FindCalendarByName(title).val.id)
    ELSE None

\* _get_available_calendar_ids
GetAvailableCalendarIds == {c.id : c \in ExternalCalendars}

\* what resolve_calendar_names_to_ids returns or raises: the ids, or the
\* name the ValueError carries
Resolved(err, ids, missing) == [err |-> err, ids |-> ids, missing |-> missing]

\* faulty variant: a name without a calendar is passed over
RECURSIVE ResolveSkipping(_, _)
ResolveSkipping(names, acc) ==
    IF names = << >> THEN Resolved("ok", acc, sEmpty)
    ELSE IF ~GetCalendarIdByName(Head(names)).found
    THEN ResolveSkipping(Tail(names), acc)
    ELSE ResolveSkipping(Tail(names), Append(acc, GetCalendarIdByName(Head(names)).val))

\* the loop of resolve_calendar_names_to_ids, acc being calendar_ids
RECURSIVE ResolveLoop(_, _)
ResolveLoop(names, acc) ==
    IF names = << >> THEN Resolved("ok", acc, sEmpty)
    ELSE IF ~GetCalendarIdByName(Head(names)).found
    THEN Resolved("NotFound", << >>, Head(names))
    ELSE ResolveLoop(Tail(names), Append(acc, GetCalendarIdByName(Head(names)).val))

ResolveCalendarNamesToIds(names) == ResolveLoop(names, << >>)

\* the lists of names resolve_calendar_names_to_ids is called with
ResolveLists ==
    {<< >>, <<sB, sA, sB>>, <<sA, sD, sB, sSlash>>}


\* faulty variant: an id counts as valid when it is the title of a calendar
RECURSIVE ValidationByTitle(_, _)
ValidationByTitle(ids, acc) ==
    IF ids = << >> THEN acc
    ELSE ValidationByTitle(Tail(ids),
            Put(acc, Head(ids), \E c \in ExternalCalendars : c.title = Head(ids)))

\* the loop of validate_group_calendars, acc being validation_results
RECURSIVE ValidationLoop(_, _)
ValidationLoop(ids, acc) ==
    IF ids = << >> THEN acc
    ELSE ValidationLoop(Tail(ids),
            Put(acc, Head(ids), Head(ids) \in GetAvailableCalendarIds))

\* validate_group_calendars
ValidateGroupCalendars(c, fs, name) ==
    {IF out.err # "ok" THEN out
     ELSE IF ~out.found THEN [out EXCEPT !.err = "NotFound"]
     ELSE [out EXCEPT !.ret = ValidationLoop(out.group.calendar_ids, << >>)] :
        out \in GetGroup(c, fs, name)}

\* the ids validate_group_calendars found invalid, in the order of the dict
InvalidIds(results) ==
    LET bad == SelectSeq(results, LAMBDA e : ~e.val)
    IN  [i \in 1..Len(bad) |-> bad[i].key]

\* how the removal loop of cleanup_invalid_calendars ends
Cleaned(c, fs, err, removed, saved) ==
    [cache |-> c, fs |-> fs, err |-> err, removed |-> removed, saved |-> saved]

\* the loop over invalid_calendar_ids: each id is removed through the
\* Manager, which saves after every removal; an error ends the loop
RECURSIVE CleanupLoop(_, _, _, _, _, _, _)
CleanupLoop(c, fs, t, name, ids, removed, saved) ==
    IF ids = << >> THEN {Cleaned(c, fs, "ok", removed, saved)}
    ELSE UNION {
            IF out.err # "ok"
            THEN {Cleaned(out.cache, out.fs, out.err, removed, saved \/ out.saved)}
            ELSE CleanupLoop(out.cache, out.fs, t, name, Tail(ids),
                             IF out.ret THEN removed + 1 ELSE removed,
                             saved \/ out.saved) :
            out \in RemoveCalendarFromGroup(c, fs, t, name, Head(ids))}

\* the dict cleanup_invalid_calendars returns
CleanupResult(name, removed, invalid, remaining) ==
    [group_name |-> name, removed_count |-> removed,
     invalid_calendars |-> invalid, remaining_calendars |-> remaining]

\* cleanup_invalid_calendars: group is the object the Manager keeps in its
\* cache, so len(group.calendar_ids) is read after the removals
CleanupInvalidCalendars(c, fs, t, name) ==
    UNION {
        IF v.err # "ok" THEN {v}
        ELSE {IF r.err # "ok"
              THEN Out(r.cache, r.fs, r.err, FALSE, FALSE, NoGroup, r.saved, v.called)
              ELSE Out(r.cache, r.fs, "ok",
                       CleanupResult(name, r.removed, InvalidIds(v.ret),
                           Len(Lookup(r.cache.schema.groups, name).calendar_ids) - r.removed),
                       TRUE, NoGroup, r.saved, v.called) :
                r \in CleanupLoop(v.cache, v.fs, t, name, InvalidIds(v.ret), 0, FALSE)} :
        v \in ValidateGroupCalendars(c, fs, name)}

DoResolve ==
    \E names \in ResolveLists :
        /\ last' = [Returned(Call("resolve", sEmpty, sEmpty, names, NoUpdates), NoOut)
                       EXCEPT !.err = ResolveCalendarNamesToIds(names).err,
                              !.ret = ResolveCalendarNamesToIds(names)]
        /\ UNCHANGED <<cache, primary, backups, tmp, now, sv, warmed, reloaded,
                       extDirty, faults, writes>>

DoValidate(I) ==
    \E name \in I.names :
        \E out \in ValidateGroupCalendars(cache, TheFS, name) :
            Apply(I, Call("validate", name, sEmpty, << >>, NoUpdates), out)

DoCleanup(I) ==
    \E name \in I.names :
        \E out \in CleanupInvalidCalendars(cache, TheFS, now, name) :
            Apply(I, Call("cleanup", name, sEmpty, << >>, NoUpdates), out)

BridgeInputs ==
    Inputs({sA, sB}, {}, {<<sX, sZ, sY, sD>>, <<sX, sY>>}, {Desc(sEmpty)},
           {Updates(TRUE, <<sZ, sX, sZ>>, FALSE, Desc(sEmpty))}, {}, {"IOError"}, {})

NextBridge ==
    \/ DoCreate(BridgeInputs)
    \/ DoUpdate(BridgeInputs)
    \/ DoValidate(BridgeInputs)
    \/ DoCleanup(BridgeInputs)
    \/ DoRefresh
    \/ DoResolve

SpecBridge == Init /\ [][NextBridge]_vars

\* C27: resolve_calendar_names_to_ids(names) returns, when every name has a
\* calendar, a list as long as names whose i-th element is the id of the
\* calendar with the title names[i]; otherwise it raises NotFound with the
\* first name of the list that has no calendar and returns no ids.
C27_ResolveInOrder ==
    last.call.op = "resolve" =>
        LET names == last.call.ids
            missing == {i \in 1..Len(names) :
                          \A c \in ExternalCalendars : c.title # names[i]}
        IN  IF missing = {}
            THEN /\ last.err = "ok"
                 /\ Len(last.ret.ids) = Len(names)
                 /\ \A i \in 1..Len(names) :
                       [id |-> last.ret.ids[i], title |-> names[i]] \in ExternalCalendars
            ELSE /\ last.err = "NotFound"
                 /\ last.ret.ids = << >>
                 /\ \E i \in missing : /\ last.ret.missing = names[i]
                                        /\ \A j \in missing : i <= j

C27_Witness ==
    /\ last.call.op = "resolve"
    /\ last.call.ids = <<sB, sA, sB>>
    /\ last.ret.ids = <<sY, sX, sY>>

\* C28: validate_group_calendars(group) returns a mapping whose keys are
\* exactly the calendar ids of the group, each with the value TRUE exactly
\* when it is the id of one of the calendars of the host; it raises NotFound
\* only when the group does not exist, and changes neither the group nor
\* the files.
C28_ValidateMapsEveryId ==
    [][last'.call.op = "validate" =>
          /\ primary' = primary /\ backups' = backups /\ tmp' = tmp
          /\ cache.loaded => cache' = cache
          /\ \A schema \in Current(cache, TheFS) :
                /\ cache'.schema = schema
                /\ IF last'.call.name \in Keys(schema.groups)
                   THEN /\ last'.err = "ok"
                        /\ Keys(last'.ret) =
                              Range(Lookup(schema.groups, last'.call.name).calendar_ids)
                        /\ \A e \in Range(last'.ret) :
                              e.val <=> (\E c \in ExternalCalendars : c.id = e.key)
                   ELSE last'.err = "NotFound"]_vars

C28_Witness ==
    /\ last.call.op = "validate"
    /\ last.call.name = sA
    /\ last.err = "ok"
    /\ last.ret = <<[key |-> sX, val |-> TRUE], [key |-> sZ, val |-> FALSE],
                    [key |-> sY, val |-> TRUE], [key |-> sD, val |-> FALSE]>>


\* the id is the id of a calendar of the host
Resolves(id) == \E c \in ExternalCalendars : c.id = id

\* C29: after cleanup_invalid_calendars(group) has returned, the calendar
\* ids of the group are exactly the ids that resolved before the call, in
\* their order; removed_count is the number of ids that did not resolve and
\* invalid_calendars lists exactly those; without an invalid id nothing is
\* removed or saved and removed_count is 0.
C29_CleanupKeepsValidIds ==
    [][(last'.call.op = "cleanup" /\ last'.err = "ok") =>
          \A schema \in Current(cache, TheFS) :
              LET before == Lookup(schema.groups, last'.call.name).calendar_ids
                  bad == {i \in 1..Len(before) : ~Resolves(before[i])}
              IN  /\ IdsOf(cache', last'.call.name) =
                        SelectSeq(before, LAMBDA id : Resolves(id))
                  /\ last'.ret.removed_count = Cardinality(bad)
                  /\ Range(last'.ret.invalid_calendars) = {before[i] : i \in bad}
                  /\ bad = {} => /\ ~last'.saved
                                 /\ primary' = primary /\ backups' = backups
                                 /\ last'.ret.removed_count = 0]_vars

\* C30: the remaining_calendars value cleanup_invalid_calendars reports is
\* the number of calendar ids the group has after the cleanup, which is
\* the number before the call minus removed_count.
C30_RemainingIsCountAfter ==
    [][(last'.call.op = "cleanup" /\ last'.err = "ok") =>
          \A schema \in Current(cache, TheFS) :
              /\ last'.ret.remaining_calendars = Len(IdsOf(cache', last'.call.name))
              /\ last'.ret.remaining_calendars =
                    Len(Lookup(schema.groups, last'.call.name).calendar_ids)
                        - last'.ret.removed_count]_vars


----------------------------------------------------------------------------
(* get_events_by_group *)

\* an event of the host: its start time, its title and its calendar
Event(start, title, cal) == [start_time |-> start, title |-> title, calendar |-> cal]

\* the events the host holds for the calendar with the given title
EventsOf(title) ==
    IF title = sA THEN <<Event(2, sX, sA), Event(1, sY, sA), Event(2, sZ, sA)>>
    ELSE IF title = sB THEN <<Event(1, sD, sB), Event(2, sB, sB)>>
    ELSE << >>

\* calendar_manager.list_events(start, end, title) when the calendar exists
ListEvents(start, end, title) ==
    SelectSeq(EventsOf(title), LAMBDA e : start <= e.start_time /\ e.start_time <= end)

\* calendar_manager._find_calendar_by_id
FindCalendarById(id) ==
    IF \E c \in ExternalCalendars : c.id = id
    THEN Some(CHOOSE c \in ExternalCalendars : c.id = id)
    ELSE None

\* _get_calendar_name_by_id
GetCalendarNameById(id) ==
    IF FindCalendarById(id).found THEN Some(FindCalendarById(id).val.title) ELSE None

\* all_events.sort(key=lambda e: e.start_time): a stable sort
InsertByStart(sorted, e) ==
    LET n == Cardinality({i \in 1..Len(sorted) : sorted[i].start_time <= e.start_time})
    IN  SubSeq(sorted, 1, n) \o <<e>> \o SubSeq(sorted, n + 1, Len(sorted))

RECURSIVE SortedByStart(_)
SortedByStart(es) ==
    IF es = << >> THEN << >>
    ELSE InsertByStart(SortedByStart(SubSeq(es, 1, Len(es) - 1)), es[Len(es)])

\* faulty variant: the events are returned calendar by calendar
EventsUnsorted(es) == es

\* the list get_events_by_group returns for the events it collected
SortEvents(es) == SortedByStart(es)

\* the loop of get_events_by_group over calendar_ids; list_events raises
\* NoSuchCalendarException for the titles in vanished
RECURSIVE CollectEvents(_, _, _, _, _)
CollectEvents(ids, start, end, vanished, acc) ==
    IF ids = << >> THEN acc
    ELSE LET name == GetCalendarNameById(Head(ids))
         IN  CollectEvents(Tail(ids), start, end, vanished,
                IF name.found /\ name.val # sEmpty /\ name.val \notin vanished
                THEN acc \o ListEvents(start, end, name.val)
                ELSE acc)

GetEventsByGroup(c, fs, name, start, end, vanished) ==
    {IF out.err # "ok" THEN out
     ELSE IF ~out.found THEN [out EXCEPT !.err = "NotFound"]
     ELSE [out EXCEPT !.ret =
              SortEvents(CollectEvents(out.group.calendar_ids, start, end, vanished, << >>))] :
        out \in GetGroup(c, fs, name)}

\* what get_events_by_group was called with, and what the host did
EventsCall(name, start, end, vanished) ==
    [Call("events", name, sEmpty, << >>, NoUpdates)
        EXCEPT !.other = [start |-> start, end |-> end, vanished |-> vanished]]

DoEvents(I) ==
    \E name \in I.names, start \in 1..2, vanished \in SUBSET {sA, sB} :
        \E out \in GetEventsByGroup(cache, TheFS, name, start, 2, vanished) :
            Apply(I, EventsCall(name, start, 2, vanished), out)

EventsInputs ==
    Inputs({sA, sB}, {}, {<<sX, sZ, sY>>, <<sY, sX>>}, {Desc(sEmpty)}, {}, {}, {}, {})

NextEvents ==
    \/ DoCreate(EventsInputs)
    \/ DoDelete(EventsInputs)
    \/ DoEvents(EventsInputs)

SpecEvents == Init /\ [][NextEvents]_vars


\* the events the host returned to the call, calendar by calendar in the
\* order of the group's calendar_ids
EventsQueried ==
    CollectEvents(IdsOf(cache, last.call.name), last.call.other.start,
                  last.call.other.end, last.call.other.vanished, << >>)

\* C31: get_events_by_group raises NotFound when the group does not exist;
\* otherwise it raises nothing for an id without a calendar or a calendar
\* the query reports as missing, and returns exactly the events returned
\* for the other calendars, by non-decreasing start time, events of equal
\* start time in the order of calendar_ids and then of each calendar's list.
C31_EventsSortedStable ==
    last.call.op = "events" =>
        IF cache.loaded /\ last.call.name \in Keys(cache.schema.groups)
        THEN /\ last.err = "ok"
             /\ Len(last.ret) = Len(EventsQueried)
             /\ \E p \in [1..Len(last.ret) -> 1..Len(last.ret)] :
                   /\ \A i \in 1..Len(last.ret) : last.ret[i] = EventsQueried[p[i]]
                   /\ \A i, j \in 1..Len(last.ret) :
                         i < j => \/ last.ret[i].start_time < last.ret[j].start_time
                                  \/ /\ last.ret[i].start_time = last.ret[j].start_time
                                     /\ p[i] < p[j]
        ELSE last.err = "NotFound"

C31_Witness ==
    /\ last.call.op = "events"
    /\ last.err = "ok"
    /\ IdsOf(cache, last.call.name) = <<sX, sZ, sY>>
    /\ last.ret = <<Event(1, sY, sA), Event(1, sD, sB), Event(2, sX, sA),
                    Event(2, sZ, sA), Event(2, sB, sB)>>


----------------------------------------------------------------------------
(* get_group_statistics *)

\* get_available_calendars, for the calendars cals of the host: the ids
AvailableIds(cals) == {c.id : c \in cals}

\* the percentage len(calendars_in_groups) / len(available_calendars) * 100
\* as a fraction; 0 when there is no calendar
Coverage(inGroups, available) ==
    IF available = 0 THEN [num |-> 0, den |-> 1]
    ELSE [num |-> inGroups * 100, den |-> available]

\* the number of references of the groups to ids that are not available
RECURSIVE InvalidReferences(_, _)
InvalidReferences(gs, avail) ==
    IF gs = << >> THEN 0
    ELSE Cardinality({i \in 1..Len(Head(gs).calendar_ids) :
                         Head(gs).calendar_ids[i] \notin avail})
         + InvalidReferences(Tail(gs), avail)

\* the dict get_group_statistics returns for the groups gs
StatisticsOf(gs, cals) ==
    LET inGroups == UNION {Range(gs[i].calendar_ids) : i \in 1..Len(gs)}
    IN  [group_stats |-> StatsOf(gs),
         total_available_calendars |-> Cardinality(AvailableIds(cals)),
         calendars_in_groups |-> Cardinality(inGroups),
         ungrouped_calendars |-> Cardinality(AvailableIds(cals) \ inGroups),
         invalid_calendar_references |-> InvalidReferences(gs, AvailableIds(cals)),
         group_coverage_percentage |->
             Coverage(Cardinality(inGroups), Cardinality(AvailableIds(cals)))]

GetGroupStatistics(c, fs, cals) ==
    {IF out.err # "ok" THEN out
     ELSE [out EXCEPT !.ret = StatisticsOf(ListGroups(out.cache.schema), cals)] :
        out \in GetGroupStats(c, fs)}

\* get_group_statistics() while the host has the calendars cals
DoStatistics(I) ==
    \E cals \in {ExternalCalendars, {}} :
        \E out \in GetGroupStatistics(cache, TheFS, cals) :
            Apply(I, [Call("statistics", sEmpty, sEmpty, << >>, NoUpdates)
                         EXCEPT !.other = cals], out)

CoverageInputs ==
    Inputs({sA, sB}, {}, {<<sX, sZ>>, <<sY>>, <<sZ, sD, sX>>}, {Desc(sEmpty)},
           {}, {}, {}, {})

NextCoverage ==
    \/ DoCreate(CoverageInputs)
    \/ DoDelete(CoverageInputs)
    \/ DoStatistics(CoverageInputs)

SpecCoverage == Init /\ [][NextCoverage]_vars

\* the ids some group refers to
ReferencedIds ==
    UNION {Range(cache.schema.groups[i].val.calendar_ids) :
              i \in 1..Len(cache.schema.groups)}

\* C32: in get_group_statistics calendars_in_groups counts the available
\* calendars that some group refers to, so calendars_in_groups +
\* ungrouped_calendars = total_available_calendars and the coverage
\* percentage is at most 100, and 0 when no calendar is available.
C32_CoverageCountsAvailable ==
    (last.call.op = "statistics" /\ last.err = "ok") =>
        /\ last.ret.calendars_in_groups =
              Cardinality(ReferencedIds \cap AvailableIds(last.call.other))
        /\ last.ret.calendars_in_groups + last.ret.ungrouped_calendars
              = last.ret.total_available_calendars
        /\ last.ret.group_coverage_percentage.num
              <= 100 * last.ret.group_coverage_percentage.den
        /\ last.call.other = {} => last.ret.group_coverage_percentage.num = 0


----------------------------------------------------------------------------
(* SpecClock: the Manager's operations on one group while time passes *)

\* the clock is read up to this value
MaxClock == 3

\* a Manager call returns as out says, the clock having moved on by one
ApplyLater(I, call, out) ==
    /\ now < MaxClock
    /\ now' = now + 1
    /\ out.err \in SaveErrors => out.err \in I.errs /\ faults < MaxFaults
    /\ faults' = IF out.err \in SaveErrors THEN faults + 1 ELSE faults
    /\ cache' = out.cache
    /\ primary' = out.fs.primary
    /\ backups' = out.fs.backups
    /\ tmp' = out.fs.tmp
    /\ last' = Returned(call, out)
    /\ warmed' = (warmed \/ (out.called /\ out.cache.loaded))
    /\ reloaded' = (reloaded \/ (out.called /\ warmed))
    /\ extDirty' = (extDirty /\ ~out.called)
    /\ UNCHANGED <<sv, writes>>

ClockCreate(I) ==
    \E name \in I.names, ids \in I.lists, desc \in I.descs :
        \E out \in CreateGroup(cache, TheFS, now, name, ids, desc) :
            ApplyLater(I, Call("create", name, sEmpty, ids, Updates(FALSE, << >>, TRUE, desc)), out)

ClockUpdate(I) ==
    \E name \in I.names, upd \in I.updates :
        \E out \in UpdateGroup(cache, TheFS, now, name, upd) :
            ApplyLater(I, Call("update", name, sEmpty, << >>, upd), out)

ClockAddCalendar(I) ==
    \E name \in I.names, id \in I.ids :
        \E out \in AddCalendarToGroup(cache, TheFS, now, name, id) :
            ApplyLater(I, Call("add_calendar", name, id, << >>, NoUpdates), out)

ClockRemoveCalendar(I) ==
    \E name \in I.names, id \in I.ids :
        \E out \in RemoveCalendarFromGroup(cache, TheFS, now, name, id) :
            ApplyLater(I, Call("remove_calendar", name, id, << >>, NoUpdates), out)

ClockRename(I) ==
    \E old \in I.names, new \in I.newNames :
        \E out \in RenameGroup(cache, TheFS, now, old, new) :
            ApplyLater(I, Call("rename", old, new, << >>, NoUpdates), out)

ClockInputs ==
    Inputs({sA, sB}, {sB, sPadA}, {<<sX>>}, {Desc(sEmpty)},
           {Updates(TRUE, <<sY, sY>>, FALSE, Desc(sEmpty)),
            Updates(FALSE, << >>, TRUE, Desc(sPadD)),
            Updates(FALSE, << >>, FALSE, Desc(sEmpty))},
           {sX, sY}, {}, {})

NextClock ==
    \/ ClockCreate(ClockInputs)
    \/ ClockUpdate(ClockInputs)
    \/ ClockAddCalendar(ClockInputs)
    \/ ClockRemoveCalendar(ClockInputs)
    \/ ClockRename(ClockInputs)
    \/ DoRefresh

SpecClock == Init /\ [][NextClock]_vars


\* the group satisfies the invariants of the entity: its fields are what
\* the validators accept and return
EntityOk(g) ==
    /\ GroupOk(g.name, g.calendar_ids, Desc(g.description))
    /\ Strip(g.name) = g.name
    /\ UniqueIds(g.calendar_ids) = g.calendar_ids
    /\ Strip(g.description) = g.description

\* every group of the schema does, under its name, and the version is valid
SchemaValid(schema) ==
    /\ ValidateVersionOk(schema.version)
    /\ \A i \in 1..Len(schema.groups) :
          /\ EntityOk(schema.groups[i].val)
          /\ schema.groups[i].key = schema.groups[i].val.name

NameAfter(call) == IF call.op = "rename" THEN call.other ELSE call.name

\* C34: across Manager operations on a group its created timestamp never
\* changes (update, add_calendar, remove_calendar and rename included), its
\* modified timestamp never decreases and is set to the time of every
\* successful mutation, and modified >= created in every state.
C34_TimestampsMonotone ==
    [][/\ (last'.call.op \in {"update", "add_calendar", "remove_calendar", "rename"}
             /\ last'.err = "ok") =>
            \A schema \in Current(cache, TheFS) :
                LET g == Lookup(schema.groups, last'.call.name)
                    h == Lookup(cache'.schema.groups, NameAfter(last'.call))
                IN  /\ h.created = g.created
                    /\ h.modified >= g.modified
                    /\ last'.saved => h.modified = now
       /\ cache'.loaded =>
            \A i \in 1..Len(cache'.schema.groups) :
                cache'.schema.groups[i].val.modified
                    >= cache'.schema.groups[i].val.created]_vars

C34_Witness ==
    /\ last.call.op = "rename"
    /\ last.err = "ok"
    /\ sB \in Keys(cache.schema.groups)
    /\ Lookup(cache.schema.groups, sB).created = 0
    /\ Lookup(cache.schema.groups, sB).modified = 2
    /\ Lookup(cache.schema.groups, sB).calendar_ids = <<sX, sY>>


----------------------------------------------------------------------------
(* SpecOwner: the caller changes objects it got from or gave to the Manager *)

\* get_calendars_in_group: a copy of the list of the group
GetCalendarsInGroup(c, fs, name) ==
    {IF out.err # "ok" THEN out
     ELSE IF ~out.found THEN [out EXCEPT !.err = "NotFound"]
     ELSE [out EXCEPT !.ret = out.group.calendar_ids] :
        out \in GetGroup(c, fs, name)}

DoGetCalendars(I) ==
    \E name \in I.names :
        \E out \in GetCalendarsInGroup(cache, TheFS, name) :
            Apply(I, Call("get_calendars", name, sEmpty, << >>, NoUpdates), out)

\* the operations that return the group object the cached schema holds
ReturnsCachedGroup == {"get", "create", "update", "rename"}

\* the cache after id is appended to the calendar_ids of the cached group
\* called name
AppendInCache(c, name, id) ==
    Cached(WithGroup(c.schema, name,
        [Lookup(c.schema.groups, name) EXCEPT !.calendar_ids = Append(@, id)]))

\* the caller appends an id to the calendar_ids of the object the last call
\* returned: to the group itself, or to the list get_calendars_in_group
\* copied
CallerAppends ==
    /\ last.err = "ok"
    /\ cache.loaded
    /\ \/ /\ last.call.op \in ReturnsCachedGroup
          /\ last.found
          /\ sD \notin Range(last.group.calendar_ids)
          /\ cache' = AppendInCache(cache, last.group.name, sD)
          /\ last' = Returned(Call("caller_append", last.group.name, sEmpty,
                                    << >>, NoUpdates), NoOut)
       \/ /\ last.call.op = "get_calendars"
          /\ cache' = cache
          /\ last' = Returned(Call("caller_append", last.call.name, sEmpty,
                                    << >>, NoUpdates), NoOut)
    /\ UNCHANGED <<primary, backups, tmp, now, sv, warmed, reloaded, extDirty,
                   faults, writes>>

\* the caller appends an id to the list it passed to update_group as
\* calendar_ids, which the group now holds
CallerAppendsToPassed ==
    /\ last.err = "ok"
    /\ cache.loaded
    /\ last.call.op = "update"
    /\ last.call.upd.hasIds
    /\ sD \notin Range(last.group.calendar_ids)
    /\ cache' = AppendInCache(cache, last.call.name, sD)
    /\ last' = Returned(Call("caller_append_passed", last.call.name, sEmpty,
                              << >>, NoUpdates), NoOut)
    /\ UNCHANGED <<primary, backups, tmp, now, sv, warmed, reloaded, extDirty,
                   faults, writes>>

OwnerInputs ==
    Inputs({sA, sB}, {}, {<<sX>>}, {Desc(sEmpty)},
           {Updates(TRUE, <<sY>>, FALSE, Desc(sEmpty))}, {}, {}, {})

NextOwner ==
    \/ DoCreate(OwnerInputs)
    \/ DoUpdate(OwnerInputs)
    \/ DoGet(OwnerInputs)
    \/ DoGetCalendars(OwnerInputs)
    \/ CallerAppends
    \/ CallerAppendsToPassed

SpecOwner == Init /\ [][NextOwner]_vars

\* what get_group(name) would return
WouldGet(c, fs, name) == {[found |-> out.found, group |-> out.group] :
                             out \in GetGroup(c, fs, name)}

\* C35: a change the caller makes to an object the Manager returned, or to
\* a list it passed to the Manager, does not change what later reads of
\* the Manager return.
C35_CallerCannotChangeState ==
    [][last'.call.op \in {"caller_append", "caller_append_passed"} =>
          \A name \in {sA, sB} :
              WouldGet(cache', FS(primary', backups', tmp'), name)
                  = WouldGet(cache, TheFS, name)]_vars


\* g and h have the same name, calendar ids and description
SameContent(g, h) ==
    /\ g.name = h.name
    /\ g.calendar_ids = h.calendar_ids
    /\ g.description = h.description

\* C36: whenever create_group returns a group, whatever the name given, the
\* schema afterwards holds that group under the returned name: get_group of
\* that name yields its name, calendar ids and description, and the file
\* written contains it.
C36_CreatedGroupIsStored ==
    [][(last'.call.op = "create" /\ last'.err = "ok") =>
          /\ last'.group.name \in Keys(cache'.schema.groups)
          /\ SameContent(Lookup(cache'.schema.groups, last'.group.name), last'.group)
          /\ Parses(primary')
          /\ last'.group.name \in Keys(primary'.data.groups)
          /\ SameContent(Lookup(primary'.data.groups, last'.group.name), last'.group)]_vars


\* what list_groups tells of a schema: the name, calendar ids and
\* description of every group
GroupsContent(schema) ==
    {<<schema.groups[i].val.name, schema.groups[i].val.calendar_ids,
       schema.groups[i].val.description>> : i \in 1..Len(schema.groups)}

\* C37: what a successful Manager write persisted can be loaded back: when
\* no save has failed and refresh() is called on a warm cache, the next read
\* loads the file without a validation error and finds the groups, with
\* their names, calendar ids and descriptions, that the Manager held just
\* before the refresh.
C37_PersistedLoadsBack ==
    [][(last'.call.op = "refresh" /\ cache.loaded /\ faults = 0) =>
          \A ld \in LoadSchema(cache', FS(primary', backups', tmp')) :
              /\ ld.ok
              /\ GroupsContent(ld.cache.schema) = GroupsContent(cache.schema)]_vars


----------------------------------------------------------------------------
(* SpecShared: two Managers over one storage file, their calls serialized. *)
(* Manager A works on group "a"; Manager B, a cold cache at every call,    *)
(* creates and deletes group "b".                                          *)

SharedInputs ==
    Inputs({sA}, {}, {<<sX>>}, {Desc(sEmpty)},
           {Updates(TRUE, <<sX, sY>>, FALSE, Desc(sEmpty))},
           {sY}, {}, {sB})

NextShared ==
    \/ DoCreate(SharedInputs)
    \/ DoUpdate(SharedInputs)
    \/ DoDelete(SharedInputs)
    \/ DoAddCalendar(SharedInputs)
    \/ DoGet(SharedInputs)
    \/ DoRefresh
    \/ ExternalWrite(SharedInputs)

SpecShared == Init /\ [][NextShared]_vars

\* the entry of Manager B's group in a document, if it has one
EntryOfB(data) ==
    IF sB \in Keys(data.groups) THEN {Lookup(data.groups, sB)} ELSE {}

\* C38: when Manager A's cache is warm and Manager B has since replaced the
\* file, A's next successful write puts A's view into the file: B's group is
\* in the file exactly if A's cache had it, whatever B wrote.  When A's
\* write comes right after A's refresh(), B's group is in the file after
\* the write as it was before it.
C38_StaleWriteReplaces ==
    [][last'.saved =>
          /\ (cache.loaded /\ extDirty) =>
                /\ primary'.data = SchemaToDict(cache'.schema)
                /\ EntryOfB(primary'.data) = EntryOfB(SchemaToDict(cache.schema))
          /\ last.call.op = "refresh" =>
                EntryOfB(primary'.data) = EntryOfB(primary.data)]_vars

\* Manager B created "b", Manager A wrote from its stale cache, and "b" is
\* left only in the backup A's write made of B's file
C38_Witness ==
    /\ last.saved
    /\ extDirty
    /\ sB \notin Keys(primary.data.groups)
    /\ \E b \in backups : sB \in Keys(b.file.data.groups)


----------------------------------------------------------------------------
(* remove_calendar_from_group_by_name                                      *)

\* the ids the two loops of remove_calendar_from_group_by_name meet, in
\* order: those of the groups named name that resolve to no calendar
RECURSIVE DanglingIds(_, _)
DanglingIds(groups, name) ==
    IF groups = << >> THEN << >>
    ELSE (IF Head(groups).name = name
          THEN SelectSeq(Head(groups).calendar_ids,
                         LAMBDA id : ~GetCalendarNameById(id).found)
          ELSE << >>) \o DanglingIds(Tail(groups), name)

\* remove_calendar_from_group_by_name: the name is resolved to an id and
\* that id removed; a name that resolves to nothing removes the first id of
\* the group that resolves to no calendar, and raises when there is none
RemoveCalendarFromGroupByName(c, fs, t, name, title) ==
    IF GetCalendarIdByName(title).found
    THEN RemoveCalendarFromGroup(c, fs, t, name, GetCalendarIdByName(title).val)
    ELSE UNION {
            IF ~ld.ok THEN {LoadFailed(ld, fs)}
            ELSE LET dangling == DanglingIds(ListGroups(ld.cache.schema), name)
                 IN  IF dangling = << >>
                     THEN {Out(ld.cache, fs, "CalendarNotFound", FALSE, FALSE, NoGroup,
                               FALSE, ld.called)}
                     ELSE {[out EXCEPT !.called = @ \/ ld.called] :
                             out \in RemoveCalendarFromGroup(ld.cache, fs, t, name,
                                                             Head(dangling))} :
            ld \in LoadSchema(c, fs)}

DoRemoveByName(I) ==
    \E name \in I.names, title \in I.ids :
        \E out \in RemoveCalendarFromGroupByName(cache, TheFS, now, name, title) :
            Apply(I, Call("remove_by_name", name, title, << >>, NoUpdates), out)

----------------------------------------------------------------------------
(* SpecRemove: removal by calendar name from groups that hold ids of       *)
(* calendars "a" and "b" and ids of no calendar; the names given are one   *)
(* of a calendar and one of no calendar.                                   *)

RemoveInputs ==
    Inputs({sA, sB}, {}, {<<sX, sZ, sY, sD>>, <<sY, sX>>}, {Desc(sEmpty)},
           {}, {sA, sSlash}, {}, {})

NextRemove ==
    \/ DoCreate(RemoveInputs)
    \/ DoDelete(RemoveInputs)
    \/ DoRemoveByName(RemoveInputs)
    \/ DoRefresh

SpecRemove == Init /\ [][NextRemove]_vars

\* C39: when remove_calendar_from_group_by_name(group, calendar_name)
\* returns true, calendar_name is the name of a calendar and the group's ids
\* afterwards are those it had before without that calendar's id: every
\* other id, dangling or not, stays.
C39_RemovesNamedCalendar ==
    [][(last'.call.op = "remove_by_name" /\ last'.err = "ok" /\ last'.ret = TRUE) =>
          /\ GetCalendarIdByName(last'.call.other).found
          /\ \A schema \in Current(cache, TheFS) :
                IdsOf(cache', last'.call.name) =
                    SelectSeq(Lookup(schema.groups, last'.call.name).calendar_ids,
                              LAMBDA id : id # GetCalendarIdByName(last'.call.other).val)]_vars


----------------------------------------------------------------------------
\* C40: every value load_groups returns, from the primary file, from a
\* backup or as the empty schema, is an object that has both a version key
\* and a groups key.
C40_LoadedHasBothKeys ==
    (last.call.op = "load" /\ last.err = "ok") =>
        HasVersionKey(LoadedData) /\ HasGroupsKey(LoadedData)

====
